---- MODULE Spec2Model ----
(***************************************************************************)
(* Echolocate: the scan store and the scan controls of the UI, the rule    *)
(* condition builder, and the backend parts the UI talks to (scan           *)
(* orchestrator, condition evaluator, alert dispatcher).                    *)
(***************************************************************************)
EXTENDS Integers, Sequences, FiniteSets, TLC

VARIABLES
    \* ---- condition builder (CustomRuleForm + ConditionBuilder) ----
    conditions,     \* CustomRuleForm: let conditions: ConditionGroup
    mode,           \* "create" (rule = null) or "edit" (rule loaded in onMount)
    \* ---- scan store (scan.svelte.ts) ----
    isScanning,     \* writable<boolean>
    scanProgress,   \* writable<ScanProgress | null>: <<>> is null, <<p>> a value
    \* ---- error store (error.svelte.ts) ----
    errorState,     \* [current_error, history, is_visible]
    timers,         \* pending auto-hide timeouts, oldest first: the serial
                    \* number of the error each one was started for
    errorSeq,       \* number of addError calls so far
    \* ---- IPC between the UI and the backend ----
    calls,          \* start_scan invocations the backend has not handled yet
    replies,        \* settled start_scan invocations not yet seen by the UI
    nextCall,       \* id of the next invocation
    events,         \* backend events on their way to the listeners, in order
    uiCompleted,    \* scans for which completeScan ran on scan:completed / scan:error
    \* ---- backend scan orchestrator ----
    scans,          \* the Scan records, oldest first
    invoker,        \* the start_scan invocation the running scan answers
    phase,          \* phase the running scan is in, or the last scan was
                    \* cancelled in (0: none, 6: all phases done)
    cancelToken,    \* the cancellation signal of the running scan
    dbDevices,      \* ids of the persisted devices
    \* ---- condition evaluator ----
    evalTree,       \* the stored rule tree handed to evaluate
    evalDevice,     \* the device snapshot handed to evaluate
    evalResult,     \* <<>> before the call, <<b>> after evaluate returned b
    evalVisited,    \* paths of the nodes evaluate went through, in order
    \* ---- alert dispatcher ----
    rules,          \* the stored custom rules, in load order
    dispatch,       \* [device, pos, alerts, notified, log] of onDeviceSnapshot
    \* ---- continuous monitoring (backend scheduler loop) ----
    dbSettings,     \* the persisted settings: [interfaceId, portRange]
    monitor,        \* [active, startedWith, skipped]: the scheduler loop
    scanConfig,      \* the configuration each scan of scans was started with
    \* ---- devices store (devices.svelte.ts) and DeviceDetail ----
    deviceMap,        \* writable<Map<string, Device>>: id -> device
    selectedDeviceId, \* writable<string | null>: <<>> is null
    deleteCalls,      \* delete_device invocations the backend has not handled
    deleteReplies,    \* settled delete_device invocations not yet seen by the UI
    nextDeviceCall,   \* id of the next DeviceDetail invocation
    acceptedDeletes,   \* ids whose deletion by the user the backend accepted
    updateCalls,      \* update_device invocations the backend has not handled
    updateReplies,    \* settled update_device invocations not yet seen by the UI
    \* ---- alerts store (alerts.svelte.ts), alerts page, AlertItem ----
    alerts,         \* writable<Alert[]>, newest first
    alertEvents,    \* alert:new events on their way to the listener
    alertCalls,     \* mark_alert_read / mark_all_alerts_read not yet handled
    alertReplies,   \* settled invocations not yet seen by the UI
    nextAlertCall,  \* id of the next invocation
    dbAlerts,        \* the backend's alerts, oldest first
    \* ---- custom rules store (custom-rules.svelte.ts), CustomRulesList ----
    customRules,    \* the store value: [rules, loading, error]
    editingRule,    \* CustomRulesList: the rule the form was opened on, <<>> if none;
                    \* <<0>>: the form is open on no rule (showForm, editingRule = null)
    ruleCalls,      \* invocations the backend has not handled yet
    ruleReplies,    \* settled invocations not yet seen by the store
    nextRuleCall,   \* id of the next invocation
    dbRules,        \* the backend's custom rules
    rejected,       \* invocations whose store promise rejected (error rethrown)
    \* ---- topology graph (graph-layout.ts, NetworkGraph) ----
    graphDevices,   \* the device list last handed to updateGraph
    graph,           \* [nodes, links] returned by devicesToGraph
    \* ---- root layout start-up and the backend's event channel ----
    layout,         \* [pc, loaded, unlisteners, destroyed]: onMount / onDestroy
    listeners,      \* event names with a listener registered by listen()
    worldDevices,   \* the devices the backend holds: id -> device
    bootEvents,      \* events on their way to the registered listeners
    \* ---- settings store (settings.svelte.ts), InterfaceSelector, settings page ----
    settings,         \* writable<AppSettings>: [interfaceId, portRange]
    interfaces,       \* writable<NetworkInterface[]>: [id, isActive] each
    settingsCalls,    \* update_settings invocations the backend has not handled
    settingsReplies,  \* settled update_settings invocations not yet seen by the UI
    nextSettingsCall, \* id of the next invocation
    startedOn         \* the interface of the last manual scan, <<>> if none

builderVars == <<conditions, mode>>

uiScanVars == <<isScanning, scanProgress, errorState, timers, errorSeq, uiCompleted>>

ipcVars == <<calls, replies, nextCall, events>>

backendVars == <<scans, invoker, phase, cancelToken, dbDevices>>

scanVars == <<uiScanVars, ipcVars, backendVars>>

evalVars == <<evalTree, evalDevice, evalResult, evalVisited>>

dispatchVars == <<rules, dispatch>>

monitorVars == <<dbSettings, monitor, scanConfig>>

deviceVars == <<deviceMap, selectedDeviceId, deleteCalls, deleteReplies, nextDeviceCall, acceptedDeletes, updateCalls, updateReplies>>

alertVars == <<alerts, alertEvents, alertCalls, alertReplies, nextAlertCall, dbAlerts>>

ruleVars == <<customRules, editingRule, ruleCalls, ruleReplies, nextRuleCall, dbRules, rejected>>

graphVars == <<graphDevices, graph>>

bootVars == <<layout, listeners, worldDevices, bootEvents>>

settingsVars == <<settings, interfaces, settingsCalls, settingsReplies, nextSettingsCall, startedOn>>

vars == <<builderVars, scanVars, evalVars, dispatchVars, monitorVars, deviceVars, alertVars, ruleVars, graphVars, bootVars, settingsVars>>

nonScanVars == <<builderVars, evalVars, dispatchVars, monitorVars, deviceVars, alertVars, ruleVars, graphVars, bootVars, settingsVars>>

nonBuilderVars == <<scanVars, evalVars, dispatchVars, monitorVars, deviceVars, alertVars, ruleVars, graphVars, bootVars, settingsVars>>

nonEvalVars == <<builderVars, scanVars, dispatchVars, monitorVars, deviceVars, alertVars, ruleVars, graphVars, bootVars, settingsVars>>

nonDispatchVars == <<builderVars, scanVars, evalVars, monitorVars, deviceVars, alertVars, ruleVars, graphVars, bootVars, settingsVars>>

\* What the scan orchestrator and the scan UI leave alone.
nonScanCoreVars == <<builderVars, evalVars, dispatchVars, deviceVars, alertVars, ruleVars, graphVars, bootVars, settingsVars>>

\* What the settings store and its two editors leave alone; update_settings
\* writes the persisted settings (dbSettings).
nonSettingsVars == <<builderVars, scanVars, evalVars, dispatchVars, deviceVars, alertVars, ruleVars, graphVars, bootVars, monitor, scanConfig>>

\* What the start-up of the layout and the backend's events leave alone.
nonBootVars == <<builderVars, scanVars, evalVars, dispatchVars, monitorVars, ruleVars, graphVars,
                 settingsVars,
                 selectedDeviceId, deleteCalls, deleteReplies, nextDeviceCall,
                 acceptedDeletes, updateCalls, updateReplies,
                 alertEvents, alertCalls, alertReplies, nextAlertCall>>

nonGraphVars == <<builderVars, scanVars, evalVars, dispatchVars, monitorVars, deviceVars, alertVars, ruleVars, bootVars, settingsVars>>

nonRuleVars == <<builderVars, scanVars, evalVars, dispatchVars, monitorVars, deviceVars, alertVars, graphVars, bootVars, settingsVars>>

nonAlertVars == <<builderVars, scanVars, evalVars, dispatchVars, monitorVars, deviceVars, ruleVars, graphVars, bootVars, settingsVars>>

nonDeviceVars == <<builderVars, scanVars, evalVars, dispatchVars, monitorVars, alertVars, ruleVars, graphVars, bootVars, settingsVars>>

(***************************************************************************)
(* Bounds                                                                  *)
(***************************************************************************)
MaxNodes == 8          \* nodes of the tree held by the form (shape exploration)
MaxLeafNodes == 3      \* nodes of the tree when every leaf type is explored
MaxChildren == 2       \* children the user adds to one AND/OR group
MaxScans == 2          \* scans started in one run
MaxCalls == 2          \* start_scan invocations made by the UI in one run
MaxEvents == 2         \* events queued towards the UI
MaxDevices == 2        \* devices on the network
MaxTreeDepth == 6      \* depth of the stored trees handed to evaluate
MaxRules == 3          \* stored custom rules
MaxSkips == 1          \* monitor ticks skipped because a scan is Running
MaxDeviceCalls == 2    \* invocations made from DeviceDetail in one run
MaxAlerts == 3         \* alerts recorded by the backend
MaxAlertCalls == 2     \* invocations made from the alerts page in one run
MaxRuleCalls == 3      \* invocations made by the custom rules store in one run
MaxGraphDevices == 4   \* devices handed to devicesToGraph
MaxSettingsCalls == 2  \* update_settings invocations made by the UI in one run
MaxErrors == 22        \* addError calls in one run of the error store

(***************************************************************************)
(* Condition / ConditionLogic / ConditionGroup                             *)
(* A leaf is a record with a "type" field; a combinator is a record with   *)
(* an "operator" field and "conditions" (a sequence) or "condition".       *)
(***************************************************************************)
maxDepth == 5

isLogical(cond) == "operator" \in DOMAIN cond

HasList(cond) == "conditions" \in DOMAIN cond

HasChild(cond) == "condition" \in DOMAIN cond

OnlineLeaf == [type |-> "is_online"]

\* The form as created: a single leaf.
BuilderIdle == mode = "create" /\ conditions = OnlineLeaf

\* Children as stored in the object, whatever the operator says.
\* Index 0 names the "condition" field, i >= 1 names conditions[i].
ChildIdx(cond) ==
    IF ~isLogical(cond) THEN {}
    ELSE (IF HasChild(cond) THEN {0} ELSE {})
         \cup (IF HasList(cond) THEN 1..Len(cond.conditions) ELSE {})

ChildOf(cond, i) == IF i = 0 THEN cond.condition ELSE cond.conditions[i]

\* Children the component renders (and so the user can act on):
\* NOT renders condition.condition, AND/OR render each of condition.conditions.
\* A missing field makes the child fail to render.
RenderedIdx(cond) ==
    IF ~isLogical(cond) THEN {}
    ELSE IF cond.operator = "NOT"
         THEN (IF HasChild(cond) THEN {0} ELSE {})
         ELSE (IF HasList(cond) THEN 1..Len(cond.conditions) ELSE {})

RECURSIVE NodeCount(_)
NodeCount(cond) ==
    LET idx == ChildIdx(cond)
        RECURSIVE Sum(_)
        Sum(S) == IF S = {} THEN 0
                  ELSE LET i == CHOOSE j \in S : TRUE
                       IN NodeCount(ChildOf(cond, i)) + Sum(S \ {i})
    IN 1 + Sum(idx)

RECURSIVE Depth(_)
Depth(cond) ==
    LET idx == ChildIdx(cond)
        RECURSIVE Mx(_)
        Mx(S) == IF S = {} THEN 0
                 ELSE LET i == CHOOSE j \in S : TRUE
                          a == 1 + Depth(ChildOf(cond, i))
                          b == Mx(S \ {i})
                      IN IF a > b THEN a ELSE b
    IN Mx(idx)

\* Paths (sequences of child indices) of the rendered component instances.
RECURSIVE RenderedPaths(_)
RenderedPaths(cond) ==
    {<<>>} \cup UNION { { <<i>> \o p : p \in RenderedPaths(ChildOf(cond, i)) }
                        : i \in RenderedIdx(cond) }

\* Paths of every node stored in the tree.
RECURSIVE AllPaths(_)
AllPaths(cond) ==
    {<<>>} \cup UNION { { <<i>> \o p : p \in AllPaths(ChildOf(cond, i)) }
                        : i \in ChildIdx(cond) }

RECURSIVE NodeAt(_, _)
NodeAt(cond, p) ==
    IF p = <<>> THEN cond ELSE NodeAt(ChildOf(cond, Head(p)), Tail(p))

\* The chain of onUpdate callbacks from the instance at path p up to the form:
\* each parent stores the updated child (condition.condition = cond or
\* condition.conditions[idx] = updated) and calls its own onUpdate.
RECURSIVE ReplaceAt(_, _, _)
ReplaceAt(cond, p, new) ==
    IF p = <<>> THEN new
    ELSE LET i == Head(p)
             sub == ReplaceAt(ChildOf(cond, i), Tail(p), new)
         IN IF i = 0 THEN [cond EXCEPT !.condition = sub]
            ELSE [cond EXCEPT !.conditions[i] = sub]

RemoveIndex(s, i) == SubSeq(s, 1, i - 1) \o SubSeq(s, i + 1, Len(s))

(***************************************************************************)
(* ConditionBuilder: leaf editing                                          *)
(***************************************************************************)
ConditionTypes ==
    {"is_online", "is_trusted", "is_gateway", "ip_matches", "mac_matches",
     "vendor_contains", "hostname_contains", "has_open_ports", "port_open",
     "os_unknown", "low_os_confidence", "high_latency", "custom_property"}

\* Values the <select> can deliver; "bogus" stands for any value outside the
\* list (the default: branch of the switch).
TypeInputs == ConditionTypes \cup {"bogus"}

\* Numbers with a fraction are kept in tenths: threshold 0.5 is 5.
createConditionByType(type) ==
    CASE type = "is_online" -> [type |-> "is_online"]
      [] type = "is_trusted" -> [type |-> "is_trusted"]
      [] type = "is_gateway" -> [type |-> "is_gateway"]
      [] type = "ip_matches" -> [type |-> "ip_matches", pattern |-> "192.168.1.0/24"]
      [] type = "mac_matches" -> [type |-> "mac_matches", pattern |-> "AA:BB:CC:DD:EE:*"]
      [] type = "vendor_contains" -> [type |-> "vendor_contains", text |-> ""]
      [] type = "hostname_contains" -> [type |-> "hostname_contains", text |-> ""]
      [] type = "has_open_ports" -> [type |-> "has_open_ports"]
      [] type = "port_open" -> [type |-> "port_open", port |-> 80]
      [] type = "os_unknown" -> [type |-> "os_unknown"]
      [] type = "low_os_confidence" -> [type |-> "low_os_confidence", threshold |-> 5]
      [] type = "high_latency" -> [type |-> "high_latency", ms |-> 100]
      [] type = "custom_property" -> [type |-> "custom_property", key |-> "", value |-> ""]
      [] OTHER -> [type |-> "is_online"]

\* The inputs the template renders for a leaf of the given type, as
\* <<key, value>> pairs the on:change handlers can pass to
\* handlePropertyUpdate (numbers after parseInt / parseFloat).
PropertyInputs(type) ==
    CASE type \in {"ip_matches", "mac_matches"} ->
             {<<"pattern", "10.0.0.0/8">>, <<"pattern", "">>}
      [] type \in {"vendor_contains", "hostname_contains"} ->
             {<<"text", "acme">>}
      [] type = "port_open" -> {<<"port", 22>>, <<"port", 443>>}
      [] type = "low_os_confidence" -> {<<"threshold", 8>>}
      [] type = "high_latency" -> {<<"ms", 250>>}
      [] type = "custom_property" -> {<<"key", "owner">>, <<"value", "lab">>}
      [] OTHER -> {}

\* A type change that keeps the old leaf object and only retags it.
handleConditionTypeChangeRetag(cond, type) == ("type" :> type) @@ cond

\* handleConditionTypeChange: onUpdate(createConditionByType(type))
handleConditionTypeChange(cond, type) == createConditionByType(type)

\* handlePropertyUpdate: c[key] = value; onUpdate(condition)
handlePropertyUpdate(cond, key, value) == (key :> value) @@ cond

(***************************************************************************)
(* ConditionBuilder: structure editing                                     *)
(***************************************************************************)
\* addCondition(operator): the value handed to onUpdate by the instance
\* showing cond.
addCondition(cond, operator) ==
    IF isLogical(cond) /\ cond.operator = operator
    THEN [cond EXCEPT !.conditions = Append(@, OnlineLeaf)]
    ELSE [operator |-> operator, conditions |-> <<cond, OnlineLeaf>>]

\* handleLogicalChange: logic.operator = operator; onUpdate(condition)
handleLogicalChange(cond, operator) == [cond EXCEPT !.operator = operator]

\* The "+ AND" / "+ OR" buttons: only in the AND/OR branch and in the leaf
\* branch, and only when depth < maxDepth.
ShowsAddButtons(cond, depth) ==
    /\ depth < maxDepth
    /\ isLogical(cond) => cond.operator # "NOT"

Front(p) == SubSeq(p, 1, Len(p) - 1)

Last(p) == p[Len(p)]

\* The instance whose removal a click on the trash button at path p asks
\* for: a NOT passes its own onDelete down to its child.
RECURSIVE DeleteTarget(_)
DeleteTarget(p) ==
    IF p = <<>> THEN <<>>
    ELSE IF Last(p) = 0 THEN DeleteTarget(Front(p)) ELSE p

\* onDelete of the instance at path p: the form replaces the whole tree by a
\* fresh leaf; an AND/OR parent splices the child out of its list.
onDelete(tree, p) ==
    LET t == DeleteTarget(p)
    IN IF t = <<>> THEN OnlineLeaf
       ELSE LET parent == NodeAt(tree, Front(t))
            IN ReplaceAt(tree, Front(t),
                   [parent EXCEPT !.conditions = RemoveIndex(@, Last(t))])

(***************************************************************************)
(* Condition evaluator (backend, alerts/rules.rs)                          *)
(***************************************************************************)
maxEvalDepth == 5

Present(opt) == opt # <<>>

\* Leaf dispatch: one predicate per condition type over the snapshot.
\* Confidence is kept in tenths like the thresholds of the builder.
EvalLeaf(c, d) ==
    CASE c.type = "is_online" -> d.isOnline
      [] c.type = "is_trusted" -> d.isTrusted
      [] c.type = "is_gateway" -> d.isGateway
      [] c.type = "has_open_ports" -> d.openPorts # <<>>
      [] c.type = "port_open" ->
             \E i \in 1..Len(d.openPorts) :
                 d.openPorts[i].port = c.port /\ d.openPorts[i].state = "open"
      [] c.type = "os_unknown" -> ~Present(d.osGuess)
      [] c.type = "low_os_confidence" -> d.osConfidence < c.threshold
      [] c.type = "high_latency" ->
             Present(d.latencyMs) /\ d.latencyMs[1] >= c.ms

\* evaluate(node, device, depth): depth check first, then leaf or
\* combinator dispatch.  And / Or go through their children left to right
\* and stop at the first false / true child; Not negates its child and
\* fails closed when the child is absent.
RECURSIVE evaluate(_, _, _)
evaluate(node, d, depth) ==
    IF depth > maxEvalDepth THEN FALSE
    ELSE IF ~isLogical(node) THEN EvalLeaf(node, d)
    ELSE IF node.operator = "AND"
         THEN \A i \in 1..Len(node.conditions) :
                  evaluate(node.conditions[i], d, depth + 1)
    ELSE IF node.operator = "OR"
         THEN \E i \in 1..Len(node.conditions) :
                  evaluate(node.conditions[i], d, depth + 1)
    ELSE IF HasChild(node) THEN ~evaluate(node.condition, d, depth + 1)
    ELSE FALSE

\* Index of the last child the loop of an And / Or node evaluates: the
\* first child that decides the result (false for And, true for Or), or the
\* last child when none does.
StopsAtEnd(node, d, depth) == Len(node.conditions)

StopsAt(node, d, depth) ==
    LET deciding == { i \in 1..Len(node.conditions) :
                        evaluate(node.conditions[i], d, depth + 1)
                            = (node.operator = "OR") }
    IN IF deciding = {} THEN Len(node.conditions)
       ELSE CHOOSE i \in deciding : \A j \in deciding : i <= j

\* The nodes evaluate(node, d, depth) is called on, in call order, named by
\* their path from the root (node itself sits at path p).
RECURSIVE visit(_, _, _, _)
RECURSIVE visitList(_, _, _, _, _)
visit(node, d, depth, p) ==
    IF depth > maxEvalDepth \/ ~isLogical(node) THEN <<p>>
    ELSE IF node.operator \in {"AND", "OR"}
         THEN <<p>> \o visitList(node, d, depth, p, 1)
    ELSE IF HasChild(node)
         THEN <<p>> \o visit(node.condition, d, depth + 1, Append(p, 0))
    ELSE <<p>>

visitList(node, d, depth, p, i) ==
    IF i > StopsAt(node, d, depth) THEN <<>>
    ELSE visit(node.conditions[i], d, depth + 1, Append(p, i))
             \o visitList(node, d, depth, p, i + 1)

DeviceSnapshots ==
    { [isOnline |-> o, isTrusted |-> FALSE, isGateway |-> FALSE,
       openPorts |-> << [port |-> 22, state |-> "open"] >>,
       osGuess |-> <<>>, osConfidence |-> 0, latencyMs |-> l]
      : o \in BOOLEAN, l \in {<<>>, <<250>>} }

\* The nodes a stored tree bottoms out in.
BaseNodes ==
    { OnlineLeaf,
      [type |-> "high_latency", ms |-> 100],
      [operator |-> "AND", conditions |-> <<>>],
      [operator |-> "OR", conditions |-> <<>>] }

\* One more level on top of a stored tree.
Wrappers(t) ==
    { [operator |-> "NOT", condition |-> t],
      [operator |-> "AND", conditions |-> <<t>>],
      [operator |-> "AND", conditions |-> <<OnlineLeaf, t>>],
      [operator |-> "OR", conditions |-> <<OnlineLeaf, t>>] }

EvalIdle ==
    /\ evalTree = OnlineLeaf
    /\ evalDevice = CHOOSE d \in DeviceSnapshots : d.isOnline /\ d.latencyMs = <<>>
    /\ evalResult = <<>>
    /\ evalVisited = <<>>

EvalInit ==
    /\ evalTree \in BaseNodes
    /\ evalDevice \in DeviceSnapshots
    /\ evalResult = <<>>
    /\ evalVisited = <<>>

\* A deeper tree is loaded from the store.
LoadDeeperTree(t) ==
    /\ evalResult = <<>>
    /\ Depth(evalTree) < MaxTreeDepth
    /\ t \in Wrappers(evalTree)
    /\ evalTree' = t
    /\ UNCHANGED <<evalDevice, evalResult, evalVisited, nonEvalVars>>

\* evaluate(tree, device, 0)
Evaluate ==
    /\ evalResult = <<>>
    /\ evalResult' = << evaluate(evalTree, evalDevice, 0) >>
    /\ evalVisited' = visit(evalTree, evalDevice, 0, <<>>)
    /\ UNCHANGED <<evalTree, evalDevice, nonEvalVars>>

NextEval ==
    \/ \E t \in Wrappers(evalTree) : LoadDeeperTree(t)
    \/ Evaluate

(***************************************************************************)
(* Alert dispatcher (backend, alerts/engine.rs): custom rules              *)
(***************************************************************************)
\* The conditions of a stored rule that do not deserialize into a tree.
Malformed == [malformed |-> TRUE]

IsMalformed(rule) == "malformed" \in DOMAIN rule.conditions

\* Rules that can sit in the store: matching, not matching, malformed,
\* disabled.
RulePool ==
    { [isEnabled |-> TRUE, conditions |-> OnlineLeaf,
       severity |-> "critical", notifyDesktop |-> TRUE],
      [isEnabled |-> TRUE, conditions |-> [type |-> "is_trusted"],
       severity |-> "info", notifyDesktop |-> FALSE],
      [isEnabled |-> TRUE, conditions |-> Malformed,
       severity |-> "warning", notifyDesktop |-> TRUE],
      [isEnabled |-> FALSE, conditions |-> OnlineLeaf,
       severity |-> "warning", notifyDesktop |-> TRUE] }

RuleLists == UNION { [1..n -> RulePool] : n \in 0..MaxRules }

IdleDispatch ==
    [device |-> <<>>, pos |-> 0, alerts |-> <<>>, notified |-> <<>>, log |-> <<>>]

DispatchIdle == rules = <<>> /\ dispatch = IdleDispatch

DispatchInit == rules \in RuleLists /\ dispatch = IdleDispatch

\* onDeviceSnapshot(device, changeKind): start going through the rules.
OnDeviceSnapshot(d) ==
    /\ dispatch.pos = 0
    /\ dispatch' = [dispatch EXCEPT !.device = <<d>>, !.pos = 1]
    /\ UNCHANGED <<rules, nonDispatchVars>>

\* A dispatcher that gives up at the first rule that fails.
AfterFailureAbort(disp, i) ==
    [disp EXCEPT !.log = Append(@, i), !.pos = Len(rules) + 1]

\* catch, log, continue
AfterFailure(disp, i) ==
    [disp EXCEPT !.log = Append(@, i), !.pos = i + 1]

\* The rule matched: an alert with the rule's severity, and a desktop
\* notification if the rule asks for one.
AfterMatch(disp, i) ==
    [disp EXCEPT !.alerts = Append(@, [rule |-> i, severity |-> rules[i].severity]),
                 !.notified = IF rules[i].notifyDesktop THEN Append(@, i) ELSE @,
                 !.pos = i + 1]

\* One iteration of the loop over the custom rules.
DispatchRule ==
    LET i == dispatch.pos
        d == dispatch.device[1]
    IN /\ i \in 1..Len(rules)
       /\ dispatch' =
            IF ~rules[i].isEnabled THEN [dispatch EXCEPT !.pos = i + 1]
            ELSE IF IsMalformed(rules[i]) THEN AfterFailure(dispatch, i)
            ELSE IF evaluate(rules[i].conditions, d, 0) THEN AfterMatch(dispatch, i)
            ELSE [dispatch EXCEPT !.pos = i + 1]
       /\ UNCHANGED <<rules, nonDispatchVars>>

DispatchDone == dispatch.pos = Len(rules) + 1

NextDispatch ==
    \/ \E d \in DeviceSnapshots : OnDeviceSnapshot(d)
    \/ DispatchRule

(***************************************************************************)
(* Scan store (scan.svelte.ts) and error store (error.svelte.ts)           *)
(***************************************************************************)
\* updateProgress: scanProgress.set(progress); isScanning.set(true)
updateProgress(progress) == [isScanning |-> TRUE, scanProgress |-> <<progress>>]

\* A completeScan that forgets the flag.
completeScanKeepsFlag == [isScanning |-> isScanning, scanProgress |-> <<>>]

\* completeScan: isScanning.set(false); scanProgress.set(null)
completeScan == [isScanning |-> FALSE, scanProgress |-> <<>>]

FirstN(s, n) == IF Len(s) <= n THEN s ELSE SubSeq(s, 1, n)

\* slice(-n): the last n elements
LastN(s, n) == IF Len(s) <= n THEN s ELSE SubSeq(s, Len(s) - n + 1, Len(s))

HistoryKeep == 19

\* The AppError onScanError builds from the event: code SCAN_FAILED and
\* the event's message; the timestamp is the serial number of the error.
ScanErrorRaw(event, serial) ==
    [code |-> "", message |-> "Error: scan failed", timestamp |-> serial]

ScanError(event, serial) ==
    [code |-> "SCAN_FAILED", message |-> event.message, timestamp |-> serial]

\* addError: the store update (the timer is started by the action)
addError(state, error) ==
    [state EXCEPT !.current_error = <<error>>,
                  !.history = Append(LastN(state.history, HistoryKeep), error),
                  !.is_visible = TRUE]

\* clearError: current_error: null, is_visible: false
clearError(state) == [state EXCEPT !.current_error = <<>>, !.is_visible = FALSE]

\* clearHistory: history: []
clearHistory(state) == [state EXCEPT !.history = <<>>]

(***************************************************************************)
(* Backend scan orchestrator                                               *)
(***************************************************************************)
Devices == 1..MaxDevices

Phases == <<"Passive", "PingSweep", "PortScan", "HostnameResolve", "Fingerprint">>

NumPhases == Len(Phases)

\* Phases that discover devices; the later ones enrich what was found.
DiscoveryPhases == {1, 2}

RunningScans == { i \in 1..Len(scans) : scans[i].status = "running" }

Running == RunningScans # {}

\* A start guard that lets every request through.
ScanInProgressIgnored == FALSE

\* The orchestrator's state guard on start-scan requests.
ScanInProgress == Running

TerminalStatuses == {"completed", "failed", "cancelled"}

\* found: the devices this scan has upserted.
NewScan == [status |-> "running", devicesFound |-> 0, found |-> {}]

\* The monitor loop starts scans without an invocation.
NoCall == [id |-> 0, origin |-> "monitor"]

\* A cancellation that reports an empty scan.
CancelledRecordEmpty(scan) ==
    [scan EXCEPT !.status = "cancelled", !.devicesFound = 0]

\* The record of a scan that saw its cancellation signal.
CancelledRecord(scan) ==
    [scan EXCEPT !.status = "cancelled", !.devicesFound = Cardinality(scan.found)]

ProgressEvent(id, scan) ==
    [name |-> "scan:progress", scanId |-> id,
     phase |-> Phases[phase], devicesFound |-> Cardinality(scan.found)]

\* The failure message of a scan: successive scans fail for different
\* reasons.
FailureMessage(id) == IF id % 2 = 1 THEN "interface down" ELSE "probe timed out"

EndEvent(name, id) ==
    [name |-> name, scanId |-> id, phase |-> "", devicesFound |-> 0,
     message |-> IF name = "scan:error" THEN FailureMessage(id) ELSE ""]

\* The reply of the start_scan invocation that started the scan, if any.
ReplyFor(call, result) ==
    IF call = NoCall THEN {}
    ELSE { [id |-> call.id, origin |-> call.origin, result |-> result] }

Current == CHOOSE i \in RunningScans : TRUE

ScanInit ==
    /\ isScanning = FALSE
    /\ scanProgress = <<>>
    /\ errorState = [current_error |-> <<>>, history |-> <<>>, is_visible |-> FALSE]
    /\ timers = <<>>
    /\ errorSeq = 0
    /\ calls = {}
    /\ replies = {}
    /\ nextCall = 1
    /\ events = <<>>
    /\ uiCompleted = {}
    /\ scans = <<>>
    /\ invoker = NoCall
    /\ phase = 0
    /\ cancelToken = FALSE
    /\ dbDevices = {}

\* start_scan command: reject while a scan is Running, else Idle -> Running.
StartScanCommand(c) ==
    /\ c \in calls
    /\ calls' = calls \ {c}
    /\ IF ScanInProgress
       THEN /\ replies' = replies \cup
                    { [id |-> c.id, origin |-> c.origin, result |-> "ConflictError"] }
            /\ UNCHANGED <<scans, invoker, phase, cancelToken>>
       ELSE /\ Len(scans) < MaxScans
            /\ scans' = Append(scans, NewScan)
            /\ invoker' = [id |-> c.id, origin |-> c.origin]
            /\ phase' = 1
            /\ cancelToken' = FALSE
            /\ UNCHANGED replies
    /\ UNCHANGED <<nextCall, events, dbDevices, uiScanVars, nonScanVars>>

\* Monitor loop tick: starts a scan only if none is Running.
MonitorTick ==
    /\ ~Running
    /\ Len(scans) < MaxScans
    /\ scans' = Append(scans, NewScan)
    /\ invoker' = NoCall
    /\ phase' = 1
    /\ cancelToken' = FALSE
    /\ UNCHANGED <<dbDevices, ipcVars, uiScanVars, nonScanVars>>

\* One item of a discovery phase: the cancel signal is checked, then the
\* device is upserted.
UpsertDevice(d) ==
    /\ Running
    /\ ~cancelToken
    /\ phase \in DiscoveryPhases
    /\ d = Cardinality(scans[Current].found) + 1
    /\ dbDevices' = dbDevices \cup {d}
    /\ scans' = [scans EXCEPT ![Current].found = @ \cup {d}]
    /\ UNCHANGED <<invoker, phase, cancelToken, ipcVars, uiScanVars, nonScanVars>>

\* Phase boundary: record the counts, emit a progress update, move on.
PhaseDone ==
    /\ Running
    /\ ~cancelToken
    /\ phase \in 1..NumPhases
    /\ Len(events) < MaxEvents
    /\ events' = Append(events, ProgressEvent(Current, scans[Current]))
    /\ phase' = phase + 1
    /\ scans' = [scans EXCEPT ![Current].devicesFound = Cardinality(scans[Current].found)]
    /\ UNCHANGED <<invoker, cancelToken, dbDevices, calls, replies, nextCall,
                   uiScanVars, nonScanVars>>

\* Running -> Completed
CompleteScan ==
    /\ Running
    /\ phase = NumPhases + 1
    /\ Len(events) < MaxEvents
    /\ scans' = [scans EXCEPT ![Current].status = "completed",
                              ![Current].devicesFound = Cardinality(scans[Current].found)]
    /\ events' = Append(events, EndEvent("scan:completed", Current))
    /\ replies' = replies \cup ReplyFor(invoker, "ok")
    /\ invoker' = NoCall
    /\ phase' = 0
    /\ UNCHANGED <<cancelToken, dbDevices, calls, nextCall, uiScanVars, nonScanVars>>

\* Running -> Failed
FailScan ==
    /\ Running
    /\ phase \in 1..NumPhases
    /\ Len(events) < MaxEvents
    /\ scans' = [scans EXCEPT ![Current].status = "failed",
                              ![Current].devicesFound = Cardinality(scans[Current].found)]
    /\ events' = Append(events, EndEvent("scan:error", Current))
    /\ replies' = replies \cup ReplyFor(invoker, "error")
    /\ invoker' = NoCall
    /\ phase' = 0
    /\ UNCHANGED <<cancelToken, dbDevices, calls, nextCall, uiScanVars, nonScanVars>>

\* stop_scan command: signal the cancellation token of the running scan.
StopScanCommand ==
    /\ Running
    /\ ~cancelToken
    /\ cancelToken' = TRUE
    /\ UNCHANGED <<scans, invoker, phase, dbDevices, ipcVars, uiScanVars, nonScanVars>>

\* Running -> Cancelled: the signal is seen at the next check.
ObserveCancel ==
    /\ Running
    /\ cancelToken
    /\ Len(events) < MaxEvents
    /\ scans' = [scans EXCEPT ![Current] = CancelledRecord(@)]
    /\ events' = Append(events, EndEvent("scan:completed", Current))
    /\ replies' = replies \cup ReplyFor(invoker, "ok")
    /\ invoker' = NoCall
    /\ cancelToken' = FALSE
    /\ UNCHANGED <<phase, dbDevices, calls, nextCall, uiScanVars, nonScanVars>>

(***************************************************************************)
(* Continuous monitoring (backend scheduler loop and settings)             *)
(***************************************************************************)
\* AppSettings as far as a scan depends on it; <<>> is a null interface id.
SettingsValues ==
    [interfaceId : {<<>>, <<"en0">>}, portRange : {"top100", "top1000"}]

\* The defaults of a fresh installation.
DefaultSettings == [interfaceId |-> <<>>, portRange |-> "top100"]

MonitorIdle ==
    /\ dbSettings = DefaultSettings
    /\ monitor = [active |-> FALSE, startedWith |-> DefaultSettings, skipped |-> 0]
    /\ scanConfig = <<>>

\* update_settings command: persist the settings.
UpdateSettingsCommand(s) ==
    /\ s # dbSettings
    /\ dbSettings' = s
    /\ UNCHANGED <<monitor, scanConfig, scanVars, nonScanCoreVars>>

\* start_monitor command
StartMonitorCommand ==
    /\ ~monitor.active
    /\ monitor' = [monitor EXCEPT !.active = TRUE, !.startedWith = dbSettings]
    /\ UNCHANGED <<dbSettings, scanConfig, scanVars, nonScanCoreVars>>

\* stop_monitor command
StopMonitorCommand ==
    /\ monitor.active
    /\ monitor' = [monitor EXCEPT !.active = FALSE]
    /\ UNCHANGED <<dbSettings, scanConfig, scanVars, nonScanCoreVars>>

\* The scan configuration a set of settings stands for: a null interface
\* means auto-detection, monitor scans are quick scans.
ConfigOf(s) ==
    [interfaceId |-> IF s.interfaceId = <<>> THEN "auto" ELSE s.interfaceId[1],
     scanType |-> "quick",
     portRange |-> s.portRange]

\* The configuration of the scan a tick starts: from the settings read at
\* the tick.
TickConfigCached(mon, persisted) == ConfigOf(mon.startedWith)

TickConfig(mon, persisted) == ConfigOf(persisted)

\* One cycle of the scheduler loop: skip while a scan is Running, else
\* start a scan with the settings read now.
MonitorCycle ==
    /\ monitor.active
    /\ IF Running
       THEN /\ monitor.skipped < MaxSkips
            /\ monitor' = [monitor EXCEPT !.skipped = @ + 1]
            /\ UNCHANGED <<scans, invoker, phase, cancelToken, scanConfig>>
       ELSE /\ Len(scans) < MaxScans
            /\ scans' = Append(scans, NewScan)
            /\ scanConfig' = Append(scanConfig, TickConfig(monitor, dbSettings))
            /\ invoker' = NoCall
            /\ phase' = 1
            /\ cancelToken' = FALSE
            /\ UNCHANGED monitor
    /\ UNCHANGED <<dbSettings, dbDevices, ipcVars, uiScanVars, nonScanCoreVars>>

(***************************************************************************)
(* Devices store (devices.svelte.ts), DeviceDetail, device events          *)
(***************************************************************************)
\* Device snapshots as they arrive from the backend.
DeviceValues == [id : Devices, isOnline : BOOLEAN]

\* setDevices(list): a fresh map keyed by id.
setDevices(list) ==
    [id \in { d.id : d \in list } |-> CHOOSE d \in list : d.id = id]

\* upsertDevice(device): next.set(device.id, device)
upsertDevice(map, device) ==
    [id \in DOMAIN map \cup {device.id} |->
        IF id = device.id THEN device ELSE map[id]]

\* removeDevice(deviceId): next.delete(deviceId), and deselect the device if
\* it was selected.
removeDevice(map, selected, deviceId) ==
    [deviceMap |-> [id \in DOMAIN map \ {deviceId} |-> map[id]],
     selectedDeviceId |-> IF selected = <<deviceId>> THEN <<>> ELSE selected]

\* markDeparted(deviceId): { ...device, isOnline: false }, or the same map
\* when the id is unknown.
markDeparted(map, deviceId) ==
    IF deviceId \notin DOMAIN map THEN map
    ELSE [map EXCEPT ![deviceId] = [@ EXCEPT !.isOnline = FALSE]]

\* selectedDevice: $id ? $map.get($id) ?? null : null
selectedDevice ==
    IF selectedDeviceId # <<>> /\ selectedDeviceId[1] \in DOMAIN deviceMap
    THEN << deviceMap[selectedDeviceId[1]] >>
    ELSE <<>>

\* The layout has loaded the device list (setDevices) and subscribed.
DevicesInit ==
    /\ \E list \in SUBSET DeviceValues :
          /\ \A a, b \in list : a.id = b.id => a = b
          /\ deviceMap = setDevices(list)
    /\ selectedDeviceId = <<>>
    /\ deleteCalls = {}
    /\ deleteReplies = {}
    /\ nextDeviceCall = 1
    /\ acceptedDeletes = {}
    /\ updateCalls = {}
    /\ updateReplies = {}

DevicesIdle ==
    /\ deviceMap = setDevices({})
    /\ selectedDeviceId = <<>>
    /\ deleteCalls = {}
    /\ deleteReplies = {}
    /\ nextDeviceCall = 1
    /\ acceptedDeletes = {}
    /\ updateCalls = {}
    /\ updateReplies = {}

\* onDeviceDiscovered / onDeviceUpdated: (device) => upsertDevice(device)
OnDeviceUpserted(device) ==
    /\ deviceMap' = upsertDevice(deviceMap, device)
    /\ UNCHANGED <<selectedDeviceId, deleteCalls, deleteReplies, nextDeviceCall,
                   acceptedDeletes, updateCalls, updateReplies,
                   nonDeviceVars>>

\* onDeviceDeparted: ({ deviceId }) => markDeparted(deviceId)
OnDeviceDeparted(deviceId) ==
    /\ deviceMap' = markDeparted(deviceMap, deviceId)
    /\ UNCHANGED <<selectedDeviceId, deleteCalls, deleteReplies, nextDeviceCall,
                   acceptedDeletes, updateCalls, updateReplies,
                   nonDeviceVars>>

\* DeviceList row click: onSelectDevice={(id) => selectedDeviceId.set(id)}
OnSelectDevice(id) ==
    /\ id \in DOMAIN deviceMap
    /\ selectedDeviceId' = <<id>>
    /\ UNCHANGED <<deviceMap, deleteCalls, deleteReplies, nextDeviceCall,
                   acceptedDeletes, updateCalls, updateReplies,
                   nonDeviceVars>>

\* DeviceDetail close button / Escape: selectedDeviceId.set(null)
OnClose ==
    /\ selectedDeviceId # <<>>
    /\ selectedDeviceId' = <<>>
    /\ UNCHANGED <<deviceMap, deleteCalls, deleteReplies, nextDeviceCall,
                   acceptedDeletes, updateCalls, updateReplies,
                   nonDeviceVars>>

\* handleDelete, up to the await: deleteDevice(device.id)
HandleDelete ==
    /\ selectedDevice # <<>>
    /\ nextDeviceCall <= MaxDeviceCalls
    /\ deleteCalls' = deleteCalls \cup
            { [call |-> nextDeviceCall, deviceId |-> selectedDevice[1].id] }
    /\ nextDeviceCall' = nextDeviceCall + 1
    /\ UNCHANGED <<deviceMap, selectedDeviceId, deleteReplies, acceptedDeletes,
                   updateCalls, updateReplies,
                   nonDeviceVars>>

\* delete_device command: the backend deletes the device or fails.
DeleteDeviceCommand(c, result) ==
    /\ c \in deleteCalls
    /\ deleteCalls' = deleteCalls \ {c}
    /\ deleteReplies' = deleteReplies \cup
            { [call |-> c.call, deviceId |-> c.deviceId, result |-> result] }
    /\ acceptedDeletes' = IF result = "ok" THEN acceptedDeletes \cup {c.deviceId}
                          ELSE acceptedDeletes
    /\ UNCHANGED <<deviceMap, selectedDeviceId, nextDeviceCall, updateCalls, updateReplies,
                   nonDeviceVars>>

\* The ids `device.id` can yield when handleDelete resumes after the await.
\* device is a prop, read when the statement runs: it is the device selected
\* now.  With no device selected the component is gone: the read throws
\* into the catch block (no id) or still yields the device it last showed.
DeviceIdAfterAwait(r) ==
    IF selectedDevice # <<>> THEN { <<selectedDevice[1].id>> }
    ELSE { <<>>, <<r.deviceId>> }

\* handleDelete after the await: removeDevice(device.id); onClose() -- or
\* the catch block, which only logs.
DeleteReply(r, target) ==
    /\ r \in deleteReplies
    /\ deleteReplies' = deleteReplies \ {r}
    /\ target \in DeviceIdAfterAwait(r)
    /\ IF r.result = "ok" /\ target # <<>>
       THEN /\ deviceMap' = removeDevice(deviceMap, selectedDeviceId, target[1]).deviceMap
            /\ selectedDeviceId' = <<>>
       ELSE UNCHANGED <<deviceMap, selectedDeviceId>>
    /\ UNCHANGED <<deleteCalls, nextDeviceCall, acceptedDeletes, updateCalls, updateReplies,
                   nonDeviceVars>>

\* toggleTrust (saveName has the same shape), up to the await:
\* updateDevice(device.id, { isTrusted: !device.isTrusted })
toggleTrust ==
    /\ selectedDevice # <<>>
    /\ nextDeviceCall <= MaxDeviceCalls
    /\ updateCalls' = updateCalls \cup
            { [call |-> nextDeviceCall, deviceId |-> selectedDevice[1].id] }
    /\ nextDeviceCall' = nextDeviceCall + 1
    /\ UNCHANGED <<deviceMap, selectedDeviceId, deleteCalls, deleteReplies,
                   acceptedDeletes, updateReplies, nonDeviceVars>>

\* update_device command: the backend returns the device as it holds it
\* after the update, or fails; a device the user deleted is not found.
UpdateDeviceCommand(c, device) ==
    /\ c \in updateCalls
    /\ updateCalls' = updateCalls \ {c}
    /\ IF c.deviceId \in acceptedDeletes \/ device = <<>>
       THEN updateReplies' = updateReplies \cup
                { [call |-> c.call, deviceId |-> c.deviceId, device |-> <<>>] }
       ELSE /\ device[1].id = c.deviceId
            /\ updateReplies' = updateReplies \cup
                { [call |-> c.call, deviceId |-> c.deviceId, device |-> device] }
    /\ UNCHANGED <<deviceMap, selectedDeviceId, deleteCalls, deleteReplies,
                   nextDeviceCall, acceptedDeletes, nonDeviceVars>>

\* toggleTrust / saveName after the await: upsertDevice(updated) -- or the
\* catch block, which only logs.
UpdateReply(r) ==
    /\ r \in updateReplies
    /\ updateReplies' = updateReplies \ {r}
    /\ deviceMap' = IF r.device # <<>> THEN upsertDevice(deviceMap, r.device[1])
                    ELSE deviceMap
    /\ UNCHANGED <<selectedDeviceId, deleteCalls, deleteReplies, nextDeviceCall,
                   acceptedDeletes, updateCalls, nonDeviceVars>>

(***************************************************************************)
(* Alerts store (alerts.svelte.ts), alerts page, AlertItem                 *)
(***************************************************************************)
AlertTypes == {"newDevice", "portChanged"}

\* An alert as the backend creates it; it refers to no device.
NewAlert(id, alertType) ==
    [id |-> id, alertType |-> alertType, deviceId |-> <<>>, isRead |-> FALSE]

\* setAlerts(list): alerts.set(list); get_alerts lists the newest alert first.
RECURSIVE Reverse(_)
Reverse(seq) == IF seq = <<>> THEN <<>> ELSE Append(Reverse(Tail(seq)), Head(seq))

setAlerts(list) == list

\* addAlert(alert): [alert, ...list]
addAlert(list, alert) == <<alert>> \o list

\* markRead(alertId): list.map(a => a.id === alertId ? {...a, isRead: true} : a)
markRead(list, alertId) ==
    [i \in 1..Len(list) |->
        IF list[i].id = alertId THEN [list[i] EXCEPT !.isRead = TRUE] ELSE list[i]]

\* markAllRead(): list.map(a => ({...a, isRead: true}))
markAllReadToggles(list) ==
    [i \in 1..Len(list) |-> [list[i] EXCEPT !.isRead = ~@]]

markAllRead(list) ==
    [i \in 1..Len(list) |-> [list[i] EXCEPT !.isRead = TRUE]]

\* unreadCount: $alerts.filter(a => !a.isRead).length
unreadCount == Cardinality({ i \in 1..Len(alerts) : ~alerts[i].isRead })

\* The layout has loaded the alerts (setAlerts) and subscribed.
AlertsInit ==
    /\ dbAlerts \in { <<>> } \cup
            { << [NewAlert(1, "newDevice") EXCEPT !.isRead = r] >> : r \in BOOLEAN }
    /\ alerts = setAlerts(Reverse(dbAlerts))
    /\ alertEvents = <<>>
    /\ alertCalls = {}
    /\ alertReplies = {}
    /\ nextAlertCall = 1

AlertsIdle ==
    /\ dbAlerts = <<>>
    /\ alerts = <<>>
    /\ alertEvents = <<>>
    /\ alertCalls = {}
    /\ alertReplies = {}
    /\ nextAlertCall = 1

\* The dispatcher records an alert and emits alert:new.
RecordAlert(alertType) ==
    /\ Len(dbAlerts) < MaxAlerts
    /\ LET alert == NewAlert(Len(dbAlerts) + 1, alertType)
       IN /\ dbAlerts' = Append(dbAlerts, alert)
          /\ alertEvents' = Append(alertEvents, alert)
    /\ UNCHANGED <<alerts, alertCalls, alertReplies, nextAlertCall, nonAlertVars>>

\* onAlertNew: (alert) => addAlert(alert)
OnAlertNew ==
    /\ alertEvents # <<>>
    /\ alerts' = addAlert(alerts, Head(alertEvents))
    /\ alertEvents' = Tail(alertEvents)
    /\ UNCHANGED <<alertCalls, alertReplies, nextAlertCall, dbAlerts, nonAlertVars>>

\* AlertItem handleClick, up to the await: an unread alert asks the backend
\* to mark it read.
HandleClick(i) ==
    /\ i \in 1..Len(alerts)
    /\ ~alerts[i].isRead
    /\ nextAlertCall <= MaxAlertCalls
    /\ alertCalls' = alertCalls \cup
            { [call |-> nextAlertCall, command |-> "mark_alert_read",
               alertId |-> alerts[i].id] }
    /\ nextAlertCall' = nextAlertCall + 1
    /\ UNCHANGED <<alerts, alertEvents, alertReplies, dbAlerts, nonAlertVars>>

\* handleMarkAllRead, up to the await; the button shows while unreadCount > 0.
HandleMarkAllRead ==
    /\ unreadCount > 0
    /\ nextAlertCall <= MaxAlertCalls
    /\ alertCalls' = alertCalls \cup
            { [call |-> nextAlertCall, command |-> "mark_all_alerts_read",
               alertId |-> 0] }
    /\ nextAlertCall' = nextAlertCall + 1
    /\ UNCHANGED <<alerts, alertEvents, alertReplies, dbAlerts, nonAlertVars>>

\* mark_alert_read / mark_all_alerts_read: the backend records the read
\* flags, or fails and records nothing.
AlertCommand(c, result) ==
    /\ c \in alertCalls
    /\ alertCalls' = alertCalls \ {c}
    /\ alertReplies' = alertReplies \cup
            { [call |-> c.call, command |-> c.command, alertId |-> c.alertId,
               result |-> result] }
    /\ dbAlerts' = IF result # "ok" THEN dbAlerts
                   ELSE IF c.command = "mark_alert_read"
                        THEN markRead(dbAlerts, c.alertId)
                   ELSE markAllRead(dbAlerts)
    /\ UNCHANGED <<alerts, alertEvents, nextAlertCall, nonAlertVars>>

\* handleClick / handleMarkAllRead after the await: markRead(alert.id) or
\* markAllRead(); the catch block only logs.
AlertReply(r) ==
    /\ r \in alertReplies
    /\ alertReplies' = alertReplies \ {r}
    /\ alerts' = IF r.result # "ok" THEN alerts
                 ELSE IF r.command = "mark_alert_read" THEN markRead(alerts, r.alertId)
                 ELSE markAllRead(alerts)
    /\ UNCHANGED <<alertEvents, alertCalls, nextAlertCall, dbAlerts, nonAlertVars>>

(***************************************************************************)
(* Custom rules store (custom-rules.svelte.ts), CustomRulesList, the form  *)
(***************************************************************************)
\* CustomAlertRule, as far as the store and the list look at it.
StoredRule(id, name) ==
    [id |-> id, name |-> name, isEnabled |-> TRUE, conditions |-> OnlineLeaf]

\* The rules the backend holds when the page is opened.
InitialRules == << StoredRule(1, "printer"), StoredRule(2, "camera") >>

\* What the edit form submits: every field of the form, here a new name and
\* a new condition tree.
FormUpdates ==
    { [name |-> "renamed",
       conditions |-> [operator |-> "NOT", condition |-> OnlineLeaf]] }

\* Rule Store, partial update: only the supplied fields change.
ApplyUpdates(rule, updates) ==
    [f \in DOMAIN rule |-> IF f \in DOMAIN updates THEN updates[f] ELSE rule[f]]

RuleIds(list) == { list[i].id : i \in 1..Len(list) }

\* state.rules.map(r => r.id === ruleId ? updated : r)
ReplaceRule(list, ruleId, updated) ==
    [i \in 1..Len(list) |-> IF list[i].id = ruleId THEN updated ELSE list[i]]

\* state.rules.filter(r => r.id !== ruleId)
FilterRule(list, ruleId) == SelectSeq(list, LAMBDA r : r.id # ruleId)

\* Placeholders of invocations that carry no updates / return no rule.
NoUpdates == [none |-> TRUE]

NoRule == [id |-> 0]

\* CustomRulesList onMount has fetched the rules.
RulesInit ==
    /\ dbRules = InitialRules
    /\ customRules = [rules |-> InitialRules, loading |-> FALSE, error |-> <<>>]
    /\ editingRule = <<>>
    /\ ruleCalls = {}
    /\ ruleReplies = {}
    /\ nextRuleCall = 1
    /\ rejected = {}

RulesIdle ==
    /\ dbRules = <<>>
    /\ customRules = [rules |-> <<>>, loading |-> FALSE, error |-> <<>>]
    /\ editingRule = <<>>
    /\ ruleCalls = {}
    /\ ruleReplies = {}
    /\ nextRuleCall = 1
    /\ rejected = {}

\* The first statement of every store operation and its invoke:
\* update(state => ({...state, loading: true, error: null}))
Invoke(command, ruleId, updates, origin) ==
    /\ nextRuleCall <= MaxRuleCalls
    /\ customRules' = [customRules EXCEPT !.loading = TRUE, !.error = <<>>]
    /\ ruleCalls' = ruleCalls \cup
            { [call |-> nextRuleCall, command |-> command, ruleId |-> ruleId,
               updates |-> updates, origin |-> origin] }
    /\ nextRuleCall' = nextRuleCall + 1

\* The enable checkbox of a listed rule (the list shows while not loading):
\* customRules.updateRule(rule.id, { isEnabled: e.currentTarget.checked })
ToggleEnabled(i) ==
    /\ ~customRules.loading
    /\ i \in 1..Len(customRules.rules)
    /\ Invoke("update_custom_rule", customRules.rules[i].id,
              [isEnabled |-> ~customRules.rules[i].isEnabled], "list")
    /\ UNCHANGED <<editingRule, ruleReplies, dbRules, rejected, nonRuleVars>>

\* handleDelete(rule.id), confirmed: customRules.deleteRule(ruleId)
HandleDeleteRule(i) ==
    /\ ~customRules.loading
    /\ i \in 1..Len(customRules.rules)
    /\ Invoke("delete_custom_rule", customRules.rules[i].id, NoUpdates, "list")
    /\ UNCHANGED <<editingRule, ruleReplies, dbRules, rejected, nonRuleVars>>

\* startEdit(rule): editingRule = rule; showForm = true
StartEdit(i) ==
    /\ ~customRules.loading
    /\ i \in 1..Len(customRules.rules)
    /\ editingRule = <<>>
    /\ editingRule' = << customRules.rules[i].id >>
    /\ UNCHANGED <<customRules, ruleCalls, ruleReplies, nextRuleCall, dbRules, rejected, nonRuleVars>>

\* The New Rule button: editingRule = null; showForm = true
OpenNewRule ==
    /\ editingRule = <<>>
    /\ editingRule' = <<0>>
    /\ UNCHANGED <<customRules, ruleCalls, ruleReplies, nextRuleCall, dbRules, rejected, nonRuleVars>>

\* CustomRuleForm handleSubmit, up to the await: in edit mode
\* customRules.updateRule(rule.id, {name, ..., conditions}), otherwise
\* customRules.createRule(name, ..., conditions, ...)
HandleSubmit(updates) ==
    /\ editingRule # <<>>
    /\ \A c \in ruleCalls : c.origin # "form"
    /\ \A r \in ruleReplies : r.origin # "form"
    /\ nextRuleCall < MaxRuleCalls
    /\ IF editingRule[1] # 0
       THEN Invoke("update_custom_rule", editingRule[1], updates, "form")
       ELSE Invoke("create_custom_rule", 0, updates, "form")
    /\ UNCHANGED <<editingRule, ruleReplies, dbRules, rejected, nonRuleVars>>

\* The message a failing command rejects with.
RuleError(c) ==
    IF c.command = "get_custom_rules" THEN "rules not loaded" ELSE "rule not saved"

Reply(c, ok, rule, list) ==
    [call |-> c.call, command |-> c.command, ruleId |-> c.ruleId,
     updates |-> c.updates, origin |-> c.origin, ok |-> ok, rule |-> rule,
     list |-> list, error |-> IF ok THEN <<>> ELSE << RuleError(c) >>]

\* create_custom_rule / update_custom_rule / delete_custom_rule /
\* get_custom_rules in the Rule Store: a new rule under a fresh id, a partial
\* update of the rule with that id, a delete of that rule only, a listing;
\* each may fail and then changes nothing.
RuleCommand(c, fails) ==
    /\ c \in ruleCalls
    /\ ruleCalls' = ruleCalls \ {c}
    /\ IF fails \/ (c.command \in {"update_custom_rule", "delete_custom_rule"}
                     /\ c.ruleId \notin RuleIds(dbRules))
       THEN /\ ruleReplies' = ruleReplies \cup { Reply(c, FALSE, NoRule, <<>>) }
            /\ UNCHANGED dbRules
       ELSE IF c.command = "update_custom_rule"
       THEN LET old == CHOOSE r \in { dbRules[i] : i \in 1..Len(dbRules) } : r.id = c.ruleId
                updated == ApplyUpdates(old, c.updates)
            IN /\ dbRules' = ReplaceRule(dbRules, c.ruleId, updated)
               /\ ruleReplies' = ruleReplies \cup { Reply(c, TRUE, updated, <<>>) }
       ELSE IF c.command = "delete_custom_rule"
       THEN /\ dbRules' = FilterRule(dbRules, c.ruleId)
            /\ ruleReplies' = ruleReplies \cup { Reply(c, TRUE, NoRule, <<>>) }
       ELSE IF c.command = "create_custom_rule"
       THEN LET created == ApplyUpdates(StoredRule(Len(InitialRules) + c.call, ""), c.updates)
            IN /\ dbRules' = Append(dbRules, created)
               /\ ruleReplies' = ruleReplies \cup { Reply(c, TRUE, created, <<>>) }
       ELSE /\ ruleReplies' = ruleReplies \cup { Reply(c, TRUE, NoRule, dbRules) }
            /\ UNCHANGED dbRules
    /\ UNCHANGED <<customRules, editingRule, nextRuleCall, rejected, nonRuleVars>>

\* The store after the await of createRule / updateRule / deleteRule /
\* fetchRules: the try branch, or the catch branch with the message.
SettledForgetsRules(store, r) ==
    IF ~r.ok THEN [store EXCEPT !.rules = <<>>, !.error = r.error, !.loading = FALSE]
    ELSE IF r.command = "update_custom_rule"
    THEN [store EXCEPT !.rules = ReplaceRule(@, r.ruleId, r.rule), !.loading = FALSE]
    ELSE IF r.command = "delete_custom_rule"
    THEN [store EXCEPT !.rules = FilterRule(@, r.ruleId), !.loading = FALSE]
    ELSE IF r.command = "create_custom_rule"
    THEN [store EXCEPT !.rules = << r.rule >> \o @, !.loading = FALSE]
    ELSE [store EXCEPT !.rules = r.list, !.loading = FALSE]

Settled(store, r) ==
    IF ~r.ok THEN [store EXCEPT !.error = r.error, !.loading = FALSE]
    ELSE IF r.command = "update_custom_rule"
    THEN [store EXCEPT !.rules = ReplaceRule(@, r.ruleId, r.rule), !.loading = FALSE]
    ELSE IF r.command = "delete_custom_rule"
    THEN [store EXCEPT !.rules = FilterRule(@, r.ruleId), !.loading = FALSE]
    ELSE IF r.command = "create_custom_rule"
    THEN [store EXCEPT !.rules = << r.rule >> \o @, !.loading = FALSE]
    ELSE [store EXCEPT !.rules = r.list, !.loading = FALSE]

\* The catch branch of createRule / updateRule / deleteRule ends in
\* `throw error`; the one of fetchRules does not.
Throws(r) == ~r.ok /\ r.command # "get_custom_rules"

\* An invocation settles.  For the form's call the await in handleSubmit
\* resumes too: onSave closes the form and calls customRules.fetchRules();
\* a failure is shown in the form, which stays open.
RuleReply(r) ==
    /\ r \in ruleReplies
    /\ ruleReplies' = ruleReplies \ {r}
    /\ IF r.origin = "form" /\ r.ok
       THEN /\ editingRule' = <<>>
            /\ customRules' = [Settled(customRules, r) EXCEPT
                                   !.loading = TRUE, !.error = <<>>]
            /\ ruleCalls' = ruleCalls \cup
                    { [call |-> nextRuleCall, command |-> "get_custom_rules",
                       ruleId |-> 0, updates |-> NoUpdates, origin |-> "onSave"] }
            /\ nextRuleCall' = nextRuleCall + 1
       ELSE /\ customRules' = Settled(customRules, r)
            /\ UNCHANGED <<editingRule, ruleCalls, nextRuleCall>>
    /\ rejected' = IF Throws(r)
                   THEN rejected \cup { [call |-> r.call, command |-> r.command] }
                   ELSE rejected
    /\ UNCHANGED <<dbRules, nonRuleVars>>
(***************************************************************************)
(* Topology graph (graph-layout.ts) and its caller updateGraph             *)
(***************************************************************************)
\* The device lists the devices store can hand over: the values of a map
\* keyed by id, so no id occurs twice; any of them may be flagged gateway.
GraphDeviceIds == 1..MaxGraphDevices

GraphDeviceLists ==
    { s \in UNION { [1..n -> [id : GraphDeviceIds, isGateway : BOOLEAN]] :
                        n \in 0..MaxGraphDevices } :
        \A i, j \in 1..Len(s) : s[i].id = s[j].id => i = j }

\* devices.find((d) => d.isGateway): the first gateway, <<>> if there is none.
find(devices) ==
    LET hits == { i \in 1..Len(devices) : devices[i].isGateway }
    IN  IF hits = {} THEN <<>>
        ELSE << devices[CHOOSE i \in hits : \A j \in hits : i <= j] >>

\* for (const device of devices) if (device.id !== gateway.id) links.push(...)
RECURSIVE linksTo(_, _)
linksTo(devices, gateway) ==
    IF devices = <<>> THEN <<>>
    ELSE (IF Head(devices).id # gateway.id
          THEN << [source |-> Head(devices).id, target |-> gateway.id] >>
          ELSE <<>>) \o linksTo(Tail(devices), gateway)

devicesToGraphSelfLink(devices) ==
    [nodes |-> [i \in 1..Len(devices) |->
                    [id |-> devices[i].id, device |-> devices[i], pinned |-> FALSE]],
     links |-> IF find(devices) = <<>> THEN <<>>
               ELSE [i \in 1..Len(devices) |->
                        [source |-> devices[i].id, target |-> find(devices)[1].id]]]

\* devicesToGraph(devices): one node per device (radius and colour are
\* functions of the device alone and are left out), links to the gateway.
devicesToGraph(devices) ==
    [nodes |-> [i \in 1..Len(devices) |->
                    [id |-> devices[i].id, device |-> devices[i], pinned |-> FALSE]],
     links |-> IF find(devices) = <<>> THEN <<>>
               ELSE linksTo(devices, find(devices)[1])]

\* NetworkGraph before its first effect: nodes = [], links = [].
GraphIdle ==
    /\ graphDevices = <<>>
    /\ graph = [nodes |-> <<>>, links |-> <<>>]

\* $effect: updateGraph(devices) -- nodes = graph.nodes; links = graph.links
updateGraph(deviceList) ==
    /\ graphDevices' = deviceList
    /\ graph' = devicesToGraph(deviceList)
    /\ UNCHANGED nonGraphVars

(***************************************************************************)
(* Root layout: onMount (initial load, subscribeAll), onDestroy; events.ts *)
(***************************************************************************)
\* The event names whose handlers write the devices or the alerts store.
BootEventNames ==
    {"scan:device-discovered", "device:updated", "device:departed", "alert:new"}

\* The layout is mounted, has loaded its data and holds its unlisteners.
BootIdle ==
    /\ layout = [pc |-> "ready", loaded |-> <<>>, unlisteners |-> BootEventNames,
                 destroyed |-> FALSE]
    /\ listeners = BootEventNames
    /\ worldDevices = setDevices({})
    /\ bootEvents = <<>>

\* The layout is about to run onMount: Promise.all([getDevices(), ...]) is
\* in flight, nothing is subscribed, the backend holds some devices.
BootInit ==
    /\ layout = [pc |-> "mounting", loaded |-> <<>>, unlisteners |-> {},
                 destroyed |-> FALSE]
    /\ listeners = {}
    /\ \E list \in SUBSET DeviceValues :
          /\ \A a, b \in list : a.id = b.id => a = b
          /\ worldDevices = setDevices(list)
    /\ bootEvents = <<>>

\* get_devices / get_alerts answer: the snapshot is taken.
GetSnapshot ==
    /\ layout.pc = "mounting"
    /\ layout.loaded = <<>>
    /\ layout' = [layout EXCEPT !.loaded =
            << [devices |-> { worldDevices[id] : id \in DOMAIN worldDevices },
                alerts |-> Reverse(dbAlerts)] >>]
    /\ UNCHANGED <<listeners, worldDevices, bootEvents, deviceMap, alerts, dbAlerts,
                   nonBootVars>>

\* onMount after the first await: setDevices(deviceList); setAlerts(alertList);
\* then subscribeAll(...) issues its listen() calls.
OnMountLoaded ==
    /\ layout.pc = "mounting"
    /\ layout.loaded # <<>>
    /\ deviceMap' = setDevices(layout.loaded[1].devices)
    /\ alerts' = setAlerts(layout.loaded[1].alerts)
    /\ layout' = [layout EXCEPT !.pc = "subscribing", !.loaded = <<>>]
    /\ UNCHANGED <<listeners, worldDevices, bootEvents, dbAlerts, nonBootVars>>

\* One listen(name, ...) of subscribeAll is registered.
Listen(name) ==
    /\ layout.pc = "subscribing"
    /\ name \notin listeners
    /\ listeners' = listeners \cup {name}
    /\ UNCHANGED <<layout, worldDevices, bootEvents, deviceMap, alerts, dbAlerts,
                   nonBootVars>>

\* Promise.all of the listen() calls resolves: unlisteners = await subscribeAll(...)
SubscribeResolved ==
    /\ layout.pc = "subscribing"
    /\ listeners = BootEventNames
    /\ layout' = [layout EXCEPT !.pc = "ready", !.unlisteners = BootEventNames]
    /\ UNCHANGED <<listeners, worldDevices, bootEvents, deviceMap, alerts, dbAlerts,
                   nonBootVars>>

\* unsubscribeAll(unlisteners): every unlisten function held is called.
unsubscribeAll(registered, unlisteners) == registered \ unlisteners

\* onDestroy: unsubscribeAll(unlisteners), with the unlisteners held now.
OnDestroy ==
    /\ ~layout.destroyed
    /\ listeners' = unsubscribeAll(listeners, layout.unlisteners)
    /\ layout' = [layout EXCEPT !.destroyed = TRUE]
    /\ UNCHANGED <<worldDevices, bootEvents, deviceMap, alerts, dbAlerts, nonBootVars>>

\* What emitting an event does with the events in flight: it reaches the
\* listeners registered at that moment, and nobody else.
emit(queue, registered, name, device, alert) ==
    IF name \in registered
    THEN Append(queue, [name |-> name, device |-> device, alert |-> alert])
    ELSE queue

\* The backend discovers a device, sees one come back or leave, or records
\* an alert, and emits the event.
BackendEmit(name, device) ==
    /\ Len(bootEvents) < MaxEvents
    /\ name \in BootEventNames
    /\ IF name = "alert:new"
       THEN /\ Len(dbAlerts) < MaxAlerts
            /\ device.id = 1 /\ device.isOnline
            /\ dbAlerts' = Append(dbAlerts, NewAlert(Len(dbAlerts) + 1, "newDevice"))
            /\ bootEvents' = emit(bootEvents, listeners, name, device,
                                  << NewAlert(Len(dbAlerts) + 1, "newDevice") >>)
            /\ UNCHANGED worldDevices
       ELSE /\ IF name = "scan:device-discovered"
               THEN device.id \notin DOMAIN worldDevices
               ELSE /\ device.id \in DOMAIN worldDevices
                    /\ worldDevices[device.id].isOnline = ~device.isOnline
                    /\ device.isOnline = (name = "device:updated")
            /\ worldDevices' = upsertDevice(worldDevices, device)
            /\ bootEvents' = emit(bootEvents, listeners, name, device, <<>>)
            /\ UNCHANGED dbAlerts
    /\ UNCHANGED <<layout, listeners, deviceMap, alerts, nonBootVars>>

\* A registered listener runs its handler: onDeviceDiscovered /
\* onDeviceUpdated -> upsertDevice(device), onDeviceDeparted ->
\* markDeparted(deviceId), onAlertNew -> addAlert(alert).
HandleBootEvent ==
    /\ bootEvents # <<>>
    /\ bootEvents' = Tail(bootEvents)
    /\ LET e == Head(bootEvents)
       IN IF e.name = "alert:new"
          THEN alerts' = addAlert(alerts, e.alert[1]) /\ UNCHANGED deviceMap
          ELSE IF e.name = "device:departed"
          THEN deviceMap' = markDeparted(deviceMap, e.device.id) /\ UNCHANGED alerts
          ELSE deviceMap' = upsertDevice(deviceMap, e.device) /\ UNCHANGED alerts
    /\ UNCHANGED <<layout, listeners, worldDevices, dbAlerts, nonBootVars>>

(***************************************************************************)
(* Settings store (settings.svelte.ts), InterfaceSelector, settings page   *)
(***************************************************************************)
InterfaceIds == {"en0", "en1"}

\* The lists get_interfaces can return: each interface once, active or not.
InterfaceLists ==
    { s \in UNION { [1..n -> [id : InterfaceIds, isActive : BOOLEAN]] :
                        n \in 0..Cardinality(InterfaceIds) } :
        \A i, j \in 1..Len(s) : s[i].id = s[j].id => i = j }

\* $interfaces.find(...): the first of the matching positions, <<>> if
\* there is none.
findInterface(list, hits) ==
    IF hits = {} THEN <<>>
    ELSE << list[CHOOSE i \in hits : \A j \in hits : i <= j] >>

\* activeInterface: the interface with the default id, else the first
\* active one, else null.
activeInterface(list, s) ==
    LET byId == { i \in 1..Len(list) :
                    s.interfaceId # <<>> /\ list[i].id = s.interfaceId[1] }
        active == { i \in 1..Len(list) : list[i].isActive }
    IN  IF findInterface(list, byId) # <<>> THEN findInterface(list, byId)
        ELSE findInterface(list, active)

\* Before the layout has loaded anything: the store's defaults (its
\* interface id and port range), no interfaces.
SettingsIdle ==
    /\ settings = DefaultSettings
    /\ interfaces = <<>>
    /\ settingsCalls = {}
    /\ settingsReplies = {}
    /\ nextSettingsCall = 1
    /\ startedOn = <<>>

\* The layout has loaded the persisted settings (setSettings) and the
\* interfaces of this run (setInterfaces); the persisted default interface
\* dates from an earlier run.
SettingsInit ==
    /\ dbSettings \in [interfaceId : {<<>>} \cup { <<id>> : id \in InterfaceIds },
                       portRange : {"top100", "top1000"}]
    /\ settings = dbSettings
    /\ interfaces \in InterfaceLists
    /\ settingsCalls = {}
    /\ settingsReplies = {}
    /\ nextSettingsCall = 1
    /\ startedOn = <<>>

\* InterfaceSelector handleChange, up to the await: the options are the
\* active interfaces; settings.set(newSettings); updateSettings(newSettings)
handleChange(id) ==
    /\ \E i \in 1..Len(interfaces) : interfaces[i].id = id /\ interfaces[i].isActive
    /\ activeInterface(interfaces, settings) # << [id |-> id, isActive |-> TRUE] >>
    /\ nextSettingsCall <= MaxSettingsCalls
    /\ LET newSettings == [settings EXCEPT !.interfaceId = <<id>>]
       IN /\ settings' = newSettings
          /\ settingsCalls' = settingsCalls \cup
                { [call |-> nextSettingsCall, settings |-> newSettings,
                   origin |-> "selector"] }
    /\ nextSettingsCall' = nextSettingsCall + 1
    /\ UNCHANGED <<interfaces, settingsReplies, startedOn, dbSettings, nonSettingsVars>>

\* Settings page handleSave, up to the await: updateSettings(localSettings),
\* here with the other port range chosen.
handleSave ==
    /\ nextSettingsCall <= MaxSettingsCalls
    /\ settingsCalls' = settingsCalls \cup
            { [call |-> nextSettingsCall,
               settings |-> [settings EXCEPT !.portRange =
                                IF @ = "top100" THEN "top1000" ELSE "top100"],
               origin |-> "page"] }
    /\ nextSettingsCall' = nextSettingsCall + 1
    /\ UNCHANGED <<settings, interfaces, settingsReplies, startedOn, dbSettings,
                   nonSettingsVars>>

\* update_settings command: the settings are persisted, or the command fails
\* and persists nothing.
PersistSettings(c, ok) ==
    /\ c \in settingsCalls
    /\ settingsCalls' = settingsCalls \ {c}
    /\ settingsReplies' = settingsReplies \cup
            { [call |-> c.call, settings |-> c.settings, origin |-> c.origin, ok |-> ok] }
    /\ dbSettings' = IF ok THEN c.settings ELSE dbSettings
    /\ UNCHANGED <<settings, interfaces, nextSettingsCall, startedOn, nonSettingsVars>>

\* After the await: handleSave runs setSettings(localSettings) on success;
\* handleChange does nothing more; both catch blocks only log.
SettingsReply(r) ==
    /\ r \in settingsReplies
    /\ settingsReplies' = settingsReplies \ {r}
    /\ settings' = IF r.ok /\ r.origin = "page" THEN r.settings ELSE settings
    /\ UNCHANGED <<interfaces, settingsCalls, nextSettingsCall, startedOn, dbSettings,
                   nonSettingsVars>>

\* handleQuickScan / handleFullScan: const iface = $activeInterface;
\* if (!iface) return; startScan({ interfaceId: iface.id, ... })
ScanOnActiveInterface ==
    /\ activeInterface(interfaces, settings) # <<>>
    /\ startedOn' = activeInterface(interfaces, settings)
    /\ UNCHANGED <<settings, interfaces, settingsCalls, settingsReplies,
                   nextSettingsCall, dbSettings, nonSettingsVars>>

(***************************************************************************)
(* UI: scan controls, keyboard shortcut, event handlers                    *)
(***************************************************************************)
\* The commands the enabled buttons of ScanControls invoke: Quick Scan and
\* Full Scan (start_scan) and the monitor toggle (start_monitor or
\* stop_monitor), all three with disabled={scanning}.
EnabledCommands(scanning, monitoring) ==
    IF scanning THEN {}
    ELSE {"start_scan", IF monitoring THEN "stop_monitor" ELSE "start_monitor"}

\* A scan started from the UI (button or shortcut) is Running.
UiScanInProgress == Running /\ invoker # NoCall

\* handleQuickScan / handleFullScan: the buttons are disabled while scanning.
HandleScanButton(scanType) ==
    /\ ~isScanning
    /\ nextCall <= MaxCalls
    /\ calls' = calls \cup { [id |-> nextCall, origin |-> "button", scanType |-> scanType] }
    /\ nextCall' = nextCall + 1
    /\ UNCHANGED <<replies, events, backendVars, uiScanVars, nonScanVars>>

\* The await in handleQuickScan / handleFullScan settles: errors are logged.
ButtonReply(r) ==
    /\ r \in replies
    /\ r.origin = "button"
    /\ replies' = replies \ {r}
    /\ UNCHANGED <<calls, nextCall, events, backendVars, uiScanVars, nonScanVars>>

\* handleKeydown, Cmd+R / Ctrl+R
HandleKeydown ==
    /\ ~isScanning
    /\ nextCall <= MaxCalls
    /\ isScanning' = TRUE
    /\ calls' = calls \cup { [id |-> nextCall, origin |-> "keyboard", scanType |-> "quick"] }
    /\ nextCall' = nextCall + 1
    /\ UNCHANGED <<scanProgress, errorState, timers, errorSeq, uiCompleted,
                   replies, events, backendVars, nonScanVars>>

\* ... .catch(log).finally(() => completeScan())
KeyboardReply(r) ==
    /\ r \in replies
    /\ r.origin = "keyboard"
    /\ replies' = replies \ {r}
    /\ isScanning' = completeScan.isScanning
    /\ scanProgress' = completeScan.scanProgress
    /\ UNCHANGED <<errorState, timers, errorSeq, uiCompleted, calls, nextCall, events,
                   backendVars, nonScanVars>>

\* onScanProgress: (progress) => updateProgress(progress)
OnScanProgress ==
    /\ events # <<>>
    /\ Head(events).name = "scan:progress"
    /\ events' = Tail(events)
    /\ isScanning' = updateProgress(Head(events)).isScanning
    /\ scanProgress' = updateProgress(Head(events)).scanProgress
    /\ UNCHANGED <<errorState, timers, errorSeq, uiCompleted, calls, replies, nextCall,
                   backendVars, nonScanVars>>

\* onScanCompleted: () => completeScan()
OnScanCompleted ==
    /\ events # <<>>
    /\ Head(events).name = "scan:completed"
    /\ events' = Tail(events)
    /\ isScanning' = completeScan.isScanning
    /\ scanProgress' = completeScan.scanProgress
    /\ uiCompleted' = uiCompleted \cup {Head(events).scanId}
    /\ UNCHANGED <<errorState, timers, errorSeq, calls, replies, nextCall, backendVars, nonScanVars>>

\* onScanError: errorStore.addError(scanError); completeScan()
OnScanError ==
    /\ events # <<>>
    /\ Head(events).name = "scan:error"
    /\ events' = Tail(events)
    /\ errorState' = addError(errorState, ScanError(Head(events), errorSeq + 1))
    /\ timers' = Append(timers, errorSeq + 1)
    /\ errorSeq' = errorSeq + 1
    /\ isScanning' = completeScan.isScanning
    /\ scanProgress' = completeScan.scanProgress
    /\ uiCompleted' = uiCompleted \cup {Head(events).scanId}
    /\ UNCHANGED <<calls, replies, nextCall, backendVars, nonScanVars>>

\* The 5 second auto-hide timeout of addError fires.
AutoHide ==
    /\ timers # <<>>
    /\ timers' = Tail(timers)
    /\ errorState' = [errorState EXCEPT !.is_visible = FALSE]
    /\ UNCHANGED <<isScanning, scanProgress, errorSeq, uiCompleted, ipcVars, backendVars,
                   nonScanVars>>

\* errorStore.addError(error): the store update, then setTimeout(..., 5000)
AddError ==
    /\ errorSeq < MaxErrors
    /\ errorState' = addError(errorState,
            [code |-> "SCAN_FAILED", message |-> FailureMessage(1),
             timestamp |-> errorSeq + 1])
    /\ timers' = Append(timers, errorSeq + 1)
    /\ errorSeq' = errorSeq + 1
    /\ UNCHANGED <<isScanning, scanProgress, uiCompleted, ipcVars, backendVars,
                   nonScanVars>>

\* The toast's dismiss buttons: errorStore.clearError()
ClearError ==
    /\ errorState.is_visible
    /\ errorState.current_error # <<>>
    /\ errorState' = clearError(errorState)
    /\ UNCHANGED <<isScanning, scanProgress, timers, errorSeq, uiCompleted, ipcVars,
                   backendVars, nonScanVars>>

\* errorStore.clearHistory()
ClearHistory ==
    /\ errorState.history # <<>>
    /\ errorState' = clearHistory(errorState)
    /\ UNCHANGED <<isScanning, scanProgress, timers, errorSeq, uiCompleted, ipcVars,
                   backendVars, nonScanVars>>

NextScan ==
    \/ \E c \in calls : StartScanCommand(c)
    \/ MonitorTick
    \/ \E d \in Devices : UpsertDevice(d)
    \/ PhaseDone
    \/ CompleteScan
    \/ FailScan
    \/ StopScanCommand
    \/ ObserveCancel
    \/ \E scanType \in {"quick", "full"} : HandleScanButton(scanType)
    \/ \E r \in replies : ButtonReply(r)
    \/ HandleKeydown
    \/ \E r \in replies : KeyboardReply(r)
    \/ OnScanProgress
    \/ OnScanCompleted
    \/ OnScanError
    \/ AutoHide

InitScan == ScanInit /\ BuilderIdle /\ EvalIdle /\ DispatchIdle /\ MonitorIdle /\ DevicesIdle /\ AlertsIdle /\ RulesIdle /\ GraphIdle /\ BootIdle /\ SettingsIdle

SpecScan == InitScan /\ [][NextScan]_vars

NextMonitor ==
    \/ \E s \in SettingsValues : UpdateSettingsCommand(s)
    \/ StartMonitorCommand
    \/ StopMonitorCommand
    \/ MonitorCycle
    \/ PhaseDone
    \/ CompleteScan
    \/ OnScanProgress
    \/ OnScanCompleted

InitMonitor == MonitorIdle /\ ScanInit /\ BuilderIdle /\ EvalIdle /\ DispatchIdle /\ DevicesIdle /\ AlertsIdle /\ RulesIdle /\ GraphIdle /\ BootIdle /\ SettingsIdle

SpecMonitor == InitMonitor /\ [][NextMonitor]_vars

NextDevices ==
    \/ \E device \in DeviceValues : OnDeviceUpserted(device)
    \/ \E deviceId \in Devices : OnDeviceDeparted(deviceId)
    \/ \E id \in Devices : OnSelectDevice(id)
    \/ OnClose
    \/ HandleDelete
    \/ \E c \in deleteCalls, result \in {"ok", "error"} : DeleteDeviceCommand(c, result)
    \/ \E r \in deleteReplies, target \in {<<>>} \cup { <<id>> : id \in Devices } :
          DeleteReply(r, target)
    \/ toggleTrust
    \/ \E c \in updateCalls, device \in {<<>>} \cup { <<d>> : d \in DeviceValues } :
          UpdateDeviceCommand(c, device)
    \/ \E r \in updateReplies : UpdateReply(r)

InitDevices == DevicesInit /\ ScanInit /\ BuilderIdle /\ EvalIdle /\ DispatchIdle /\ MonitorIdle /\ AlertsIdle /\ RulesIdle /\ GraphIdle /\ BootIdle /\ SettingsIdle

SpecDevices == InitDevices /\ [][NextDevices]_vars

NextAlerts ==
    \/ \E alertType \in AlertTypes : RecordAlert(alertType)
    \/ OnAlertNew
    \/ \E i \in 1..MaxAlerts : HandleClick(i)
    \/ HandleMarkAllRead
    \/ \E c \in alertCalls : \E result \in {"ok", "error"} : AlertCommand(c, result)
    \/ \E r \in alertReplies : AlertReply(r)

InitAlerts == AlertsInit /\ ScanInit /\ BuilderIdle /\ EvalIdle /\ DispatchIdle /\ MonitorIdle /\ DevicesIdle /\ RulesIdle /\ GraphIdle /\ BootIdle /\ SettingsIdle

SpecAlerts == InitAlerts /\ [][NextAlerts]_vars

NextRules ==
    \/ \E i \in 1..Len(customRules.rules) : ToggleEnabled(i)
    \/ \E i \in 1..Len(customRules.rules) : HandleDeleteRule(i)
    \/ \E i \in 1..Len(customRules.rules) : StartEdit(i)
    \/ OpenNewRule
    \/ \E updates \in FormUpdates : HandleSubmit(updates)
    \/ \E c \in ruleCalls : \E fails \in BOOLEAN : RuleCommand(c, fails)
    \/ \E r \in ruleReplies : RuleReply(r)

InitRules == RulesInit /\ ScanInit /\ BuilderIdle /\ EvalIdle /\ DispatchIdle /\ MonitorIdle /\ DevicesIdle /\ AlertsIdle /\ GraphIdle /\ BootIdle /\ SettingsIdle

SpecRules == InitRules /\ [][NextRules]_vars

\* A monitored network whose scans fail while devices are being reported.
NextFailure ==
    \/ MonitorTick
    \/ \E d \in Devices : UpsertDevice(d)
    \/ PhaseDone
    \/ FailScan
    \/ OnScanProgress
    \/ OnScanError
    \/ AutoHide
    \/ \E device \in DeviceValues : OnDeviceUpserted(device)

InitFailure == ScanInit /\ DevicesIdle /\ BuilderIdle /\ EvalIdle /\ DispatchIdle /\ MonitorIdle /\ AlertsIdle /\ RulesIdle /\ GraphIdle /\ BootIdle /\ SettingsIdle

SpecFailure == InitFailure /\ [][NextFailure]_vars

NextError ==
    \/ AddError
    \/ ClearError
    \/ ClearHistory
    \/ AutoHide

InitError == ScanInit /\ DevicesIdle /\ BuilderIdle /\ EvalIdle /\ DispatchIdle /\ MonitorIdle /\ AlertsIdle /\ RulesIdle /\ GraphIdle /\ BootIdle /\ SettingsIdle

SpecError == InitError /\ [][NextError]_vars

NextGraph ==
    \E deviceList \in GraphDeviceLists : updateGraph(deviceList)

InitGraph == GraphIdle /\ ScanInit /\ BuilderIdle /\ EvalIdle /\ DispatchIdle /\ MonitorIdle /\ DevicesIdle /\ AlertsIdle /\ RulesIdle /\ BootIdle /\ SettingsIdle

SpecGraph == InitGraph /\ [][NextGraph]_vars

NextBoot ==
    \/ GetSnapshot
    \/ OnMountLoaded
    \/ \E name \in BootEventNames : Listen(name)
    \/ SubscribeResolved
    \/ OnDestroy
    \/ \E name \in BootEventNames, device \in DeviceValues : BackendEmit(name, device)
    \/ HandleBootEvent

InitBoot == BootInit /\ ScanInit /\ BuilderIdle /\ EvalIdle /\ DispatchIdle /\ MonitorIdle /\ DevicesIdle /\ AlertsIdle /\ RulesIdle /\ GraphIdle /\ SettingsIdle

SpecBoot == InitBoot /\ [][NextBoot]_vars

NextSettings ==
    \/ \E id \in InterfaceIds : handleChange(id)
    \/ handleSave
    \/ \E c \in settingsCalls, ok \in BOOLEAN : PersistSettings(c, ok)
    \/ \E r \in settingsReplies : SettingsReply(r)
    \/ ScanOnActiveInterface

InitSettings == SettingsInit /\ monitor = [active |-> FALSE, startedWith |-> DefaultSettings, skipped |-> 0] /\ scanConfig = <<>> /\ ScanInit /\ BuilderIdle /\ EvalIdle /\ DispatchIdle /\ DevicesIdle /\ AlertsIdle /\ RulesIdle /\ GraphIdle /\ BootIdle

SpecSettings == InitSettings /\ [][NextSettings]_vars

(***************************************************************************)
(* Properties of the scan lifecycle                                        *)
(***************************************************************************)
KeyboardOutstanding ==
    \/ \E c \in calls : c.origin = "keyboard"
    \/ \E r \in replies : r.origin = "keyboard"
    \/ invoker.origin = "keyboard"

\* C1: at most one scan is Running; a start-scan request handled while a
\* scan is Running is answered with ConflictError and starts no scan.
C1_AtMostOneRunning ==
    [][ /\ Cardinality(RunningScans') <= 1
        /\ RunningScans # {} =>
              /\ Len(scans') = Len(scans)
              /\ \A c \in calls \ calls' :
                    [id |-> c.id, origin |-> c.origin, result |-> "ConflictError"]
                        \in replies' ]_vars

\* A request was rejected while the scan it collided with is still running.
C1_Witness ==
    /\ RunningScans # {}
    /\ \E r \in replies : r.result = "ConflictError"

\* C2: a scan leaves Running only for Completed, Failed or Cancelled and a
\* terminal record never changes again; once completeScan has run for the
\* latest scan, the store stays idle until a new scan is started (by the
\* backend or by the keyboard shortcut).
C2_TerminalIsFinal ==
    [][ /\ \A i \in 1..Len(scans) :
              /\ i <= Len(scans')
              /\ scans[i].status \in TerminalStatuses => scans'[i] = scans[i]
              /\ scans'[i].status \in {"running"} \cup TerminalStatuses
        /\ (/\ scans' # <<>>
            /\ Len(scans') \in uiCompleted'
            /\ ~KeyboardOutstanding')
              => (isScanning' = FALSE /\ scanProgress' = <<>>) ]_vars

\* Two scans have run; the UI showed progress of the first, then saw it
\* complete, and a second scan has since started.
C2_Witness ==
    /\ Len(scans) = 2
    /\ 1 \in uiCompleted
    /\ scans[1].status \in TerminalStatuses
    /\ scans[2].status = "running"
    /\ isScanning
    /\ scanProgress # <<>>
    /\ scanProgress[1].scanId = 2

\* C3: a cancelled scan keeps every device it upserted and records
\* status Cancelled with the count of what was persisted.
C3_CancelKeepsDevices ==
    \A i \in 1..Len(scans) :
        scans[i].status = "cancelled" =>
            /\ scans[i].found \subseteq dbDevices
            /\ scans[i].devicesFound >= 0
            /\ scans[i].devicesFound = Cardinality(scans[i].found)

\* Passive persisted every device and the scan was cancelled during PingSweep.
C3_Witness ==
    /\ scans # <<>>
    /\ scans[Len(scans)].status = "cancelled"
    /\ phase = 2
    /\ scans[Len(scans)].devicesFound = MaxDevices
    /\ Devices \subseteq dbDevices

\* C4: a start-scan request rejected with ConflictError leaves the scan
\* store alone while the original scan is running.
C4_RejectedStartLeavesStore ==
    [][ \A r \in replies \ replies' :
            (r.result = "ConflictError" /\ RunningScans # {})
                => /\ scanProgress' = scanProgress
                   /\ isScanning => isScanning' ]_vars

(***************************************************************************)
(* Actions of the rule form                                                *)
(***************************************************************************)
\* Rules the edit form can be opened on (CustomRuleForm onMount).
StoredRules ==
    { [operator |-> "NOT", condition |-> [type |-> "is_online"]],
      [operator |-> "AND",
       conditions |-> << [type |-> "ip_matches", pattern |-> "192.168.1.0/24"],
                         [type |-> "port_open", port |-> 22] >>] }

BuilderInit ==
    \/ mode = "create" /\ conditions = OnlineLeaf
    \/ mode = "edit" /\ conditions \in StoredRules

AddCondition(p, operator, maxN) ==
    LET cond == NodeAt(conditions, p)
    IN /\ ShowsAddButtons(cond, Len(p))
       \* push on a missing list throws and changes nothing
       /\ (isLogical(cond) /\ cond.operator = operator) => HasList(cond)
       /\ LET next == ReplaceAt(conditions, p, addCondition(cond, operator))
          IN /\ NodeCount(next) <= maxN
             /\ Len(addCondition(cond, operator).conditions) <= MaxChildren
             /\ conditions' = next
       /\ UNCHANGED <<mode, nonBuilderVars>>

HandleLogicalChange(p, operator) ==
    LET cond == NodeAt(conditions, p)
    IN /\ isLogical(cond)
       /\ operator # cond.operator
       /\ conditions' = ReplaceAt(conditions, p, handleLogicalChange(cond, operator))
       /\ UNCHANGED <<mode, nonBuilderVars>>

HandleConditionTypeChange(p, type) ==
    LET cond == NodeAt(conditions, p)
    IN /\ ~isLogical(cond)
       /\ type # cond.type
       /\ conditions' = ReplaceAt(conditions, p, handleConditionTypeChange(cond, type))
       /\ UNCHANGED <<mode, nonBuilderVars>>

HandlePropertyUpdate(p, kv) ==
    LET cond == NodeAt(conditions, p)
    IN /\ ~isLogical(cond)
       /\ kv \in PropertyInputs(cond.type)
       /\ conditions' = ReplaceAt(conditions, p, handlePropertyUpdate(cond, kv[1], kv[2]))
       /\ UNCHANGED <<mode, nonBuilderVars>>

OnDelete(p) ==
    /\ conditions' = onDelete(conditions, p)
    /\ UNCHANGED <<mode, nonBuilderVars>>

AllPropertyInputs == UNION { PropertyInputs(t) : t \in ConditionTypes }

\* Tree shapes: the structural actions on a new rule's tree.
NextBuilder ==
    \E p \in RenderedPaths(conditions) :
        \/ \E operator \in {"AND", "OR"} : AddCondition(p, operator, MaxNodes)
        \/ \E operator \in {"AND", "OR", "NOT"} : HandleLogicalChange(p, operator)
        \/ OnDelete(p)

InitBuilder == BuilderIdle /\ ScanInit /\ EvalIdle /\ DispatchIdle /\ MonitorIdle /\ DevicesIdle /\ AlertsIdle /\ RulesIdle /\ GraphIdle /\ BootIdle /\ SettingsIdle

SpecBuilder == InitBuilder /\ [][NextBuilder]_vars

\* Leaf contents: every action, every leaf type and property input, on the
\* small trees of a new rule or of a stored rule opened for editing.
NextLeaf ==
    \E p \in RenderedPaths(conditions) :
        \/ \E operator \in {"AND", "OR"} : AddCondition(p, operator, MaxLeafNodes)
        \/ \E operator \in {"AND", "OR", "NOT"} : HandleLogicalChange(p, operator)
        \/ \E type \in TypeInputs : HandleConditionTypeChange(p, type)
        \/ \E kv \in AllPropertyInputs : HandlePropertyUpdate(p, kv)
        \/ OnDelete(p)

InitLeaf == BuilderInit /\ ScanInit /\ EvalIdle /\ DispatchIdle /\ MonitorIdle /\ DevicesIdle /\ AlertsIdle /\ RulesIdle /\ GraphIdle /\ BootIdle /\ SettingsIdle

SpecLeaf == InitLeaf /\ [][NextLeaf]_vars

InitEval == EvalInit /\ BuilderIdle /\ ScanInit /\ DispatchIdle /\ MonitorIdle /\ DevicesIdle /\ AlertsIdle /\ RulesIdle /\ GraphIdle /\ BootIdle /\ SettingsIdle

SpecEval == InitEval /\ [][NextEval]_vars

InitDispatch == DispatchInit /\ BuilderIdle /\ ScanInit /\ EvalIdle /\ MonitorIdle /\ DevicesIdle /\ AlertsIdle /\ RulesIdle /\ GraphIdle /\ BootIdle /\ SettingsIdle

SpecDispatch == InitDispatch /\ [][NextDispatch]_vars

(***************************************************************************)
(* Properties of the evaluator and the dispatcher                          *)
(***************************************************************************)
\* C5: for every tree whose depth exceeds 5 and every device,
\* evaluate(tree, device, 0) returns false.
C5_DeepTreeEvaluatesFalse ==
    (evalResult # <<>> /\ Depth(evalTree) > maxEvalDepth) => evalResult[1] = FALSE

\* C6: a failing rule among the enabled custom rules is logged and every
\* other enabled rule is still evaluated and raises its alert.
C6_OtherRulesStillAlert ==
    DispatchDone =>
        LET d == dispatch.device[1]
            Enabled == { i \in 1..Len(rules) : rules[i].isEnabled }
            Failing == { i \in Enabled : IsMalformed(rules[i]) }
            Matching == { i \in Enabled \ Failing : evaluate(rules[i].conditions, d, 0) }
        IN /\ { dispatch.alerts[k].rule : k \in 1..Len(dispatch.alerts) } = Matching
           /\ Len(dispatch.alerts) = Cardinality(Matching)
           /\ { dispatch.log[k] : k \in 1..Len(dispatch.log) } = Failing
           /\ \A k \in 1..Len(dispatch.alerts) :
                 dispatch.alerts[k].severity = rules[dispatch.alerts[k].rule].severity

\* The first of three enabled rules failed and a later one raised its alert.
C6_Witness ==
    /\ DispatchDone
    /\ Len(rules) = 3
    /\ \A i \in 1..3 : rules[i].isEnabled
    /\ dispatch.log = <<1>>
    /\ \E k \in 1..Len(dispatch.alerts) : dispatch.alerts[k].rule > 1

(***************************************************************************)
(* Properties of the condition builder                                     *)
(***************************************************************************)
Nodes(tree) == { NodeAt(tree, p) : p \in AllPaths(tree) }

\* Fields of each member of the Condition union, besides "type".
RequiredFields(type) ==
    CASE type \in {"ip_matches", "mac_matches"} -> {"pattern"}
      [] type \in {"vendor_contains", "hostname_contains"} -> {"text"}
      [] type = "port_open" -> {"port"}
      [] type = "low_os_confidence" -> {"threshold"}
      [] type = "high_latency" -> {"ms"}
      [] type = "custom_property" -> {"key", "value"}
      [] OTHER -> {}

\* C11: an empty And evaluates to true and an empty Or to false; an And
\* goes through its children left to right and stops at the first false
\* child, an Or at the first true child.
C11_IdentityAndShortCircuit ==
    evalResult # <<>> =>
        /\ (evalTree \in BaseNodes /\ isLogical(evalTree))
               => evalResult[1] = (evalTree.operator = "AND")
        /\ \A k \in 1..Len(evalVisited) :
              LET p == evalVisited[k]
                  n == NodeAt(evalTree, p)
                  Pos(i) == { m \in 1..Len(evalVisited) :
                                evalVisited[m] = Append(p, i) }
                  Decides(i) == evaluate(n.conditions[i], evalDevice, Len(p) + 1)
                                    = (n.operator = "OR")
              IN (Len(p) <= maxEvalDepth /\ isLogical(n)
                      /\ n.operator \in {"AND", "OR"})
                 => \A i \in 1..Len(n.conditions) :
                      /\ Cardinality(Pos(i)) <= 1
                      /\ Pos(i) # {} <=> \A j \in 1..(i - 1) : ~Decides(j)
                      /\ \A j \in 1..(i - 1) :
                            \A a \in Pos(j), b \in Pos(i) : a < b

\* An And of two children whose first child is false was evaluated: the
\* second child was never looked at.
C11_Witness ==
    /\ evalResult = <<FALSE>>
    /\ isLogical(evalTree)
    /\ evalTree.operator = "AND"
    /\ Len(evalTree.conditions) = 2
    /\ isLogical(evalTree.conditions[2])
    /\ \A k \in 1..Len(evalVisited) : evalVisited[k] # <<2>>

\* C7: every tree built in the ConditionBuilder from the form's single leaf
\* has depth at most 5 (root = 0).
C7_DepthAtMostFive == mode = "create" => Depth(conditions) <= maxDepth

\* C8: every AND/OR group held by the ConditionBuilder has at least one
\* child.
C8_GroupsNonEmpty ==
    \A n \in Nodes(conditions) :
        (isLogical(n) /\ n.operator \in {"AND", "OR"})
            => (HasList(n) /\ Len(n.conditions) >= 1)

\* C9: every combinator node matches the grammar: NOT has exactly its
\* "condition" child, AND/OR have their "conditions" list.
C9_CombinatorGrammar ==
    \A n \in Nodes(conditions) :
        isLogical(n) =>
            IF n.operator = "NOT"
            THEN HasChild(n) /\ ~HasList(n)
            ELSE HasList(n) /\ ~HasChild(n)

\* C10: every leaf carries exactly the fields its type requires, and no
\* child node.
C10_LeafFieldsExact ==
    \A n \in Nodes(conditions) :
        ~isLogical(n) =>
            /\ n.type \in ConditionTypes
            /\ DOMAIN n = {"type"} \cup RequiredFields(n.type)

\* A leaf inside a group whose type was changed and whose property was then
\* edited.
C10_Witness ==
    /\ isLogical(conditions)
    /\ \E n \in Nodes(conditions) :
          /\ ~isLogical(n)
          /\ n.type = "custom_property"
          /\ n.key = "owner"

\* C12: a monitor tick starts a scan only if no scan is Running, and the
\* scan it starts uses the interface and port range persisted at that tick,
\* whatever they were when monitoring or an earlier scan was started.
C12_TickUsesPersistedSettings ==
    [][Len(scans') > Len(scans) =>
          /\ ~Running
          /\ monitor.active
          /\ Len(scanConfig') = Len(scans')
          /\ LET cfg == scanConfig'[Len(scans')]
             IN /\ cfg.portRange = dbSettings.portRange
                /\ cfg.interfaceId = IF dbSettings.interfaceId = <<>> THEN "auto"
                                      ELSE dbSettings.interfaceId[1]]_vars

\* Monitoring was started with one port range, the settings were changed,
\* and the second scan of the monitor runs with the new port range.
C12_Witness ==
    /\ monitor.active
    /\ Len(scanConfig) = 2
    /\ monitor.startedWith.portRange = "top100"
    /\ scanConfig[1].portRange = "top100"
    /\ scanConfig[2].portRange = "top1000"
    /\ scanConfig[2].interfaceId = "en0"
    /\ monitor.skipped > 0

\* C13: a device:departed event only sets isOnline to false on that device
\* (and changes nothing for an unknown id), and a device leaves the devices
\* store only when the backend accepted the user's deletion of that device.
C13_OnlyAcceptedDeleteRemoves ==
    [][/\ \A id \in DOMAIN deviceMap \ DOMAIN deviceMap' : id \in acceptedDeletes'
       /\ \A deviceId \in Devices :
             OnDeviceDeparted(deviceId) =>
                 /\ DOMAIN deviceMap' = DOMAIN deviceMap
                 /\ \A id \in DOMAIN deviceMap :
                       IF id = deviceId
                       THEN deviceMap'[id] = [deviceMap[id] EXCEPT !.isOnline = FALSE]
                       ELSE deviceMap'[id] = deviceMap[id]]_vars

\* C14: across addAlert, markRead and markAllRead no alert is removed or
\* reordered, no field other than isRead changes, and isRead never goes from
\* true back to false.
C14_AlertsImmutableButRead ==
    [][/\ Len(alerts') >= Len(alerts)
       /\ LET k == Len(alerts') - Len(alerts)
          IN \A i \in 1..Len(alerts) :
                /\ [alerts'[i + k] EXCEPT !.isRead = alerts[i].isRead] = alerts[i]
                /\ alerts[i].isRead => alerts'[i + k].isRead]_vars

\* A read alert, an alert marked read by mark-all, and a newer unread alert
\* on top of them.
C14_Witness ==
    /\ Len(alerts) = 3
    /\ ~alerts[1].isRead
    /\ alerts[2].isRead
    /\ alerts[3].isRead
    /\ alerts[2].alertType # alerts[1].alertType
    /\ \E i \in 1..Len(dbAlerts) : ~dbAlerts[i].isRead

\* C15: when an updateRule(id, updates) settles, the store's rule with that
\* id changes in the supplied fields only (a field that was not supplied
\* stays, or at most catches up with the value the backend holds), and every
\* other rule, the order and the count stay; when a deleteRule(id) settles
\* only that rule goes; neither touches a device or an alert.
C15_UpdateIsPartialAndLocal ==
    [][\A r \in ruleReplies :
          (RuleReply(r) /\ r.ok) =>
              LET old == customRules.rules
                  new == customRules'.rules
              IN /\ UNCHANGED <<deviceVars, alertVars>>
                 /\ r.command = "update_custom_rule" =>
                       /\ Len(new) = Len(old)
                       /\ \A i \in 1..Len(old) :
                             /\ new[i].id = old[i].id
                             /\ old[i].id # r.ruleId => new[i] = old[i]
                             /\ \A f \in DOMAIN old[i] \ DOMAIN r.updates :
                                   \/ new[i][f] = old[i][f]
                                   \/ \E j \in 1..Len(dbRules) :
                                         /\ dbRules[j].id = old[i].id
                                         /\ dbRules[j][f] = new[i][f]
                 /\ r.command = "delete_custom_rule" =>
                       new = SelectSeq(old, LAMBDA x : x.id # r.ruleId)]_vars

\* C16: on a scan:error event exactly one error with code SCAN_FAILED and
\* the event's message becomes the visible current error, the scan store
\* returns to not-scanning, and the devices store is left as it is.
C16_ScanErrorIsStructured ==
    [][(events # <<>> /\ Head(events).name = "scan:error" /\ events' = Tail(events)) =>
          /\ Len(errorState'.current_error) = 1
          /\ errorState'.current_error[1].code = "SCAN_FAILED"
          /\ errorState'.current_error[1].message = Head(events).message
          /\ errorState'.is_visible
          /\ errorState'.history
                = Append(errorState.history, errorState'.current_error[1])
          /\ ~isScanning'
          /\ scanProgress' = <<>>
          /\ deviceMap' = deviceMap]_vars

\* The second scan failed too, with devices in the store: its message is
\* the one shown.
C16_Witness ==
    /\ Len(errorState.history) = 2
    /\ errorState.is_visible
    /\ errorState.current_error[1].message = FailureMessage(2)
    /\ errorState.history[1].message = FailureMessage(1)
    /\ DOMAIN deviceMap = Devices
    /\ ~isScanning
    /\ events = <<>>

\* C17: while a scan started from the UI is in progress the Quick Scan and
\* Full Scan buttons are disabled (they are disabled exactly while
\* isScanning), so ScanControls issues no second start_scan during it.
C17_ButtonsDisabledDuringScan ==
    UiScanInProgress => "start_scan" \notin EnabledCommands(isScanning, monitor.active)

\* C18: whenever a scan is in progress the scan controls offer a stop action
\* that invokes stop_scan.
C18_StopOfferedWhileScanning ==
    (isScanning \/ Running) => "stop_scan" \in EnabledCommands(isScanning, monitor.active)

\* C19: the auto-hide timer of an earlier error never hides a later error:
\* when a timer fires while the visible current error is not the error the
\* timer was started for (whose own timer is still pending), the error
\* stays visible.
C19_TimerHidesOnlyItsOwnError ==
    [][(/\ timers # <<>>
        /\ timers' = Tail(timers)
        /\ errorState.is_visible
        /\ errorState.current_error # <<>>
        /\ errorState.current_error[1].timestamp # Head(timers))
          => errorState'.is_visible]_vars

\* C20: the history holds at most 20 errors, in the order they were added
\* and without gaps, ending with the most recently added error: when it is
\* full the oldest error is the one that goes.
C20_HistoryIsLastTwenty ==
    LET h == errorState.history
    IN /\ Len(h) <= HistoryKeep + 1
       /\ \A i \in 1..Len(h) : h[i].timestamp = errorSeq - Len(h) + i

\* Twenty-two errors were added with no clearHistory in between: the first
\* two are gone.
C20_Witness ==
    /\ errorSeq = 22
    /\ Len(errorState.history) = 20
    /\ errorState.history[1].timestamp = 3
    /\ errorState.history[20].timestamp = 22


(***************************************************************************)
(* Topology graph                                                          *)
(***************************************************************************)
\* C21: devicesToGraph returns one node per input device, in order; when a
\* device is a gateway there is exactly one link from every other device to
\* the first gateway (n-1 links, all between returned nodes), and when no
\* device is a gateway there are no links.
C21_StarAroundFirstGateway ==
    LET n == Len(graphDevices)
        nodeIds == { graph.nodes[i].id : i \in 1..Len(graph.nodes) }
        gws == { i \in 1..n : graphDevices[i].isGateway }
    IN  /\ Len(graph.nodes) = n
        /\ \A i \in 1..n : graph.nodes[i].id = graphDevices[i].id
        /\ \A k \in 1..Len(graph.links) :
              graph.links[k].source \in nodeIds /\ graph.links[k].target \in nodeIds
        /\ gws = {} => graph.links = <<>>
        /\ gws # {} =>
              LET g == CHOOSE i \in gws : \A j \in gws : i <= j
              IN  /\ Len(graph.links) = n - 1
                  /\ \A i \in (1..n) \ {g} :
                        Cardinality({ k \in 1..Len(graph.links) :
                            graph.links[k].source = graphDevices[i].id }) = 1
                  /\ \A k \in 1..Len(graph.links) :
                        /\ graph.links[k].target = graphDevices[g].id
                        /\ graph.links[k].source # graphDevices[g].id

\* Three devices, two of them gateways, the first gateway in second place:
\* two links, both to that gateway.
C21_Witness ==
    /\ Len(graphDevices) = 3
    /\ ~graphDevices[1].isGateway
    /\ graphDevices[2].isGateway
    /\ graphDevices[3].isGateway
    /\ Len(graph.links) = 2
    /\ graph.links[2].target = graphDevices[2].id


(***************************************************************************)
(* Properties of the custom rules store under overlapping operations       *)
(***************************************************************************)
\* C22: once every fetchRules / createRule / updateRule / deleteRule has
\* completed, the store lists exactly the rules the backend holds, each id
\* once.
C22_StoreMatchesBackendWhenSettled ==
    (ruleCalls = {} /\ ruleReplies = {}) =>
        /\ { customRules.rules[i] : i \in 1..Len(customRules.rules) }
              = { dbRules[i] : i \in 1..Len(dbRules) }
        /\ Cardinality(RuleIds(customRules.rules)) = Len(customRules.rules)


\* C23: the store's loading flag is true exactly while at least one of its
\* operations is in flight.
C23_LoadingIffPending ==
    customRules.loading <=> (ruleCalls # {} \/ ruleReplies # {})

C25_DeletedDeviceStaysGone ==
    [][\A id \in acceptedDeletes :
          (id \notin DOMAIN deviceMap /\ id \in DOMAIN deviceMap') =>
              \E device \in DeviceValues : OnDeviceUpserted(device)]_vars


(***************************************************************************)
(* Properties of the read flags                                            *)
(***************************************************************************)
\* C28: an alert is read in the alerts store only if the backend has
\* recorded that alert as read.
C28_ReadOnlyIfBackendRead ==
    \A i \in 1..Len(alerts) :
        alerts[i].isRead =>
            \E j \in 1..Len(dbAlerts) :
                dbAlerts[j].id = alerts[i].id /\ dbAlerts[j].isRead


(***************************************************************************)
(* Properties of the layout's start-up and teardown                        *)
(***************************************************************************)
\* C26: once the layout has finished initialising and no event is in
\* flight, the devices store holds the devices the backend holds and the
\* alerts store the alerts the backend recorded: nothing that happened since
\* the snapshot was taken is missing.
C26_NoEventLostAroundStartup ==
    (layout.pc = "ready" /\ ~layout.destroyed /\ bootEvents = <<>>) =>
        /\ deviceMap = worldDevices
        /\ alerts = Reverse(dbAlerts)

\* C27: after onDestroy no listener registered by onMount is subscribed.
C27_NoListenerAfterDestroy ==
    layout.destroyed => listeners = {}


(***************************************************************************)
(* Properties of the settings store                                        *)
(***************************************************************************)
\* C29: when persisting a settings change fails and nothing else is
\* outstanding, the settings store holds the persisted settings: the value
\* from before the change.
C29_FailedSaveLeavesStore ==
    [][\A r \in settingsReplies :
          (SettingsReply(r) /\ ~r.ok /\ settingsCalls = {} /\ settingsReplies = {r})
              => settings' = dbSettings]_vars

\* C30: the interface a manual scan was started on (activeInterface at the
\* click, for whatever interfaces and default interface id the stores hold)
\* is an interface of the list and is active.
C30_ScanOnActiveInterface ==
    startedOn # <<>> =>
        /\ startedOn[1] \in { interfaces[i] : i \in 1..Len(interfaces) }
        /\ startedOn[1].isActive

====
